---- MODULE Spec2Model ----
(***************************************************************************)
(* Battleship for the Arduino Uno: the game core of the sketches           *)
(*   src/battle_ship_serial_monitor.ino  (ship ids, strict placement,      *)
(*                                        hunt/target opponent)            *)
(*   src/unnamed/part_001                (roster index in a local static)  *)
(*   src/battle_ship_test_code.ino, src/unnamed/part_000 (packed grids)    *)
(*                                                                         *)
(* One step of a game specification is one execution of loop().  What a   *)
(* tick reads from the outside (pin levels, elapsed-time comparisons,      *)
(* random() draws) is an input of the step.                                *)
(***************************************************************************)
EXTENDS Integers, Sequences, FiniteSets, TLC

VARIABLES
    sketch,                     \* the sketch of src/ that is running
    GRID_SIZE,                  \* #define GRID_SIZE of the build under check
    ships,                      \* sizes of the ships[] table of the build
    gameState,
    playerGrid,
    arduinoGrid,
    playerAttackGrid,
    arduinoAttackGrid,
    cursorX,
    cursorY,
    redButtonState,
    lastRedButtonState,
    lastBlueButtonState,
    blueButtonLongPressHandled,
    blueButtonShortPress,
    playerShipHorizontal,
    arduinoAttackMode,
    lastHitX,
    lastHitY,
    targetIndex,
    targetList,
    targetListInitialized,
    shipId,
    ev,                         \* history: what the last loop() did
    env                         \* the environment of the run: which controls are used

vars == <<sketch, GRID_SIZE, ships, gameState, playerGrid, arduinoGrid, playerAttackGrid,
          arduinoAttackGrid, cursorX, cursorY, redButtonState, lastRedButtonState,
          lastBlueButtonState, blueButtonLongPressHandled, blueButtonShortPress,
          playerShipHorizontal, arduinoAttackMode, lastHitX, lastHitY, targetIndex,
          targetList, targetListInitialized, shipId, ev, env>>

(***************************************************************************)
(* Bounds.  The sketches are built with GRID_SIZE 12 and seven ships; the  *)
(* checked builds are smaller.                                             *)
(***************************************************************************)
GameGridSize == 2
GameShips == <<1>>
BattleGridSize == 2
BattleShips == <<2>>
PlaceGridSize == 3
PlaceShips == <<2, 1>>
LayoutGridSize == 4
LayoutShips == <<2, 1>>
StaticGridSize == 2
StaticShips == <<1>>
PackedGridSize == 3
PackedWrites == 2
ValidatorGridSize == 3
ValidatorShips == <<1, 2, 4>>
ValidatorMarks == 1
ValidatorCalls == 2

(***************************************************************************)
(* Program constants.                                                      *)
(***************************************************************************)
EMPTY == 0
SHIP_HIT == -1
ATTACK_UNTRIED == 0
ATTACK_MISS == 1
ATTACK_HIT == 2
SHIP_PRESENT == 1
CELL_EMPTY == 0
CELL_SHIP == 1
CELL_HIT == 2
CELL_MISS == 3

NUM_SHIPS == Len(ships)
Coord == 0 .. (GRID_SIZE - 1)
Cells == Coord \X Coord
Levels == {"HIGH", "LOW"}
GameStates == {"WAITING_TO_START", "PLACING_SHIPS", "PLAYER_TURN", "ARDUINO_TURN", "GAME_OVER"}

\* A grid with every cell set to v (initializeGrids, and the zeroed globals).
FilledGrid(v) == [x \in Coord |-> [y \in Coord |-> v]]

\* The program state as one record, so that a handler is a function of it.
St ==
    [gameState |-> gameState, playerGrid |-> playerGrid, arduinoGrid |-> arduinoGrid,
     playerAttackGrid |-> playerAttackGrid, arduinoAttackGrid |-> arduinoAttackGrid,
     cursorX |-> cursorX, cursorY |-> cursorY, redButtonState |-> redButtonState,
     lastRedButtonState |-> lastRedButtonState,
     lastBlueButtonState |-> lastBlueButtonState,
     blueButtonLongPressHandled |-> blueButtonLongPressHandled,
     blueButtonShortPress |-> blueButtonShortPress,
     playerShipHorizontal |-> playerShipHorizontal,
     arduinoAttackMode |-> arduinoAttackMode, lastHitX |-> lastHitX, lastHitY |-> lastHitY,
     targetIndex |-> targetIndex, targetList |-> targetList,
     targetListInitialized |-> targetListInitialized, shipId |-> shipId, ev |-> ev]

Becomes(s) ==
    /\ gameState' = s.gameState
    /\ playerGrid' = s.playerGrid
    /\ arduinoGrid' = s.arduinoGrid
    /\ playerAttackGrid' = s.playerAttackGrid
    /\ arduinoAttackGrid' = s.arduinoAttackGrid
    /\ cursorX' = s.cursorX
    /\ cursorY' = s.cursorY
    /\ redButtonState' = s.redButtonState
    /\ lastRedButtonState' = s.lastRedButtonState
    /\ lastBlueButtonState' = s.lastBlueButtonState
    /\ blueButtonLongPressHandled' = s.blueButtonLongPressHandled
    /\ blueButtonShortPress' = s.blueButtonShortPress
    /\ playerShipHorizontal' = s.playerShipHorizontal
    /\ arduinoAttackMode' = s.arduinoAttackMode
    /\ lastHitX' = s.lastHitX
    /\ lastHitY' = s.lastHitY
    /\ targetIndex' = s.targetIndex
    /\ targetList' = s.targetList
    /\ targetListInitialized' = s.targetListInitialized
    /\ shipId' = s.shipId
    /\ ev' = s.ev
    /\ UNCHANGED <<sketch, GRID_SIZE, ships, env>>

\* The history record at the start of a tick.  pre: the phase the tick started in;
\* reset: the press that ran resetGame; toggle: the orientation was flipped;
\* act: what the phase handler resolved, at cell (x, y); via: the branch of
\* arduinoAttack that chose the cell.
NoEvent(phase) ==
    [pre |-> phase, reset |-> "none", toggle |-> FALSE, act |-> "none", via |-> "none",
     x |-> 0, y |-> 0]

(***************************************************************************)
(* battle_ship_serial_monitor.ino: placement.                              *)
(***************************************************************************)
\* The dx/dy loops scanning two cells out instead of one.
SurroundingsEmpty_Wide(grid, xi, yi) ==
    \A dx \in -2 .. 2 : \A dy \in -2 .. 2 :
        LET nx == xi + dx
            ny == yi + dy
        IN  (nx >= 0 /\ nx < GRID_SIZE /\ ny >= 0 /\ ny < GRID_SIZE)
                => ~(grid[nx][ny] # EMPTY /\ ~(nx = xi /\ ny = yi))

\* The inner dx/dy loops of canPlaceShip around the footprint cell (xi, yi).
SurroundingsEmpty_Orthogonal(grid, xi, yi) ==
    \A dx \in -1 .. 1 : \A dy \in -1 .. 1 :
        LET nx == xi + dx
            ny == yi + dy
        IN  (nx >= 0 /\ nx < GRID_SIZE /\ ny >= 0 /\ ny < GRID_SIZE /\ (dx = 0 \/ dy = 0))
                => ~(grid[nx][ny] # EMPTY /\ ~(nx = xi /\ ny = yi))

SurroundingsEmpty(grid, xi, yi) ==
    \A dx \in -1 .. 1 : \A dy \in -1 .. 1 :
        LET nx == xi + dx
            ny == yi + dy
        IN  (nx >= 0 /\ nx < GRID_SIZE /\ ny >= 0 /\ ny < GRID_SIZE)
                => ~(grid[nx][ny] # EMPTY /\ ~(nx = xi /\ ny = yi))

canPlaceShip(grid, x, y, size, horizontal) ==
    IF horizontal
    THEN /\ ~(x + size > GRID_SIZE)
         /\ \A i \in 0 .. (size - 1) :
                grid[x + i][y] = EMPTY /\ SurroundingsEmpty(grid, x + i, y)
    ELSE /\ ~(y + size > GRID_SIZE)
         /\ \A i \in 0 .. (size - 1) :
                grid[x][y + i] = EMPTY /\ SurroundingsEmpty(grid, x, y + i)

placeShip(grid, x, y, size, horizontal, id) ==
    [xx \in Coord |-> [yy \in Coord |->
        IF horizontal
        THEN IF yy = y /\ xx >= x /\ xx < x + size THEN id ELSE grid[xx][yy]
        ELSE IF xx = x /\ yy >= y /\ yy < y + size THEN id ELSE grid[xx][yy]]]

\* countRemainingShips: the roster indices i with a cell of value i + 1 left.
countRemainingShips_Intact(grid) ==
    Cardinality({i \in 0 .. (NUM_SHIPS - 1) :
                    Cardinality({c \in Cells : grid[c[1]][c[2]] = i + 1}) = ships[i + 1]})

countRemainingShips_WholeRoster(grid) == NUM_SHIPS

countRemainingShips(grid) ==
    Cardinality({i \in 0 .. (NUM_SHIPS - 1) :
                    \E x \in Coord : \E y \in Coord :
                        grid[x][y] > 0 /\ grid[x][y] - 1 = i})

\* placeArduinoShips from roster index id on: every grid the retry loops can end
\* with.  A ship with no legal position leaves the while loop spinning: no result.
RECURSIVE placeArduinoShipsFrom(_, _)
placeArduinoShipsFrom(grid, id) ==
    IF id >= NUM_SHIPS
    THEN {grid}
    ELSE UNION { placeArduinoShipsFrom(placeShip(grid, c[1], c[2], ships[id + 1], c[3], id + 1),
                                       id + 1) :
                 c \in {d \in Coord \X Coord \X BOOLEAN :
                            canPlaceShip(grid, d[1], d[2], ships[id + 1], d[3])} }

placeArduinoShips == placeArduinoShipsFrom(FilledGrid(EMPTY), 0)

\* resetGame without the reset of the roster index.
resetGame_KeepsShipId(s, layout) ==
    [s EXCEPT !.playerGrid = FilledGrid(EMPTY),
              !.arduinoGrid = layout,
              !.playerAttackGrid = FilledGrid(ATTACK_UNTRIED),
              !.arduinoAttackGrid = FilledGrid(ATTACK_UNTRIED),
              !.cursorX = 0,
              !.cursorY = 0,
              !.lastRedButtonState = "HIGH",
              !.lastBlueButtonState = "HIGH",
              !.blueButtonLongPressHandled = FALSE,
              !.blueButtonShortPress = FALSE,
              !.playerShipHorizontal = TRUE,
              !.arduinoAttackMode = "HUNT_MODE",
              !.lastHitX = 0,
              !.lastHitY = 0,
              !.targetIndex = 0,
              !.targetListInitialized = FALSE,
              !.gameState = "PLACING_SHIPS"]

\* resetGame; layout is the grid placeArduinoShips ended with.
resetGame(s, layout) ==
    [s EXCEPT !.playerGrid = FilledGrid(EMPTY),
              !.arduinoGrid = layout,
              !.playerAttackGrid = FilledGrid(ATTACK_UNTRIED),
              !.arduinoAttackGrid = FilledGrid(ATTACK_UNTRIED),
              !.cursorX = 0,
              !.cursorY = 0,
              !.lastRedButtonState = "HIGH",
              !.lastBlueButtonState = "HIGH",
              !.blueButtonLongPressHandled = FALSE,
              !.blueButtonShortPress = FALSE,
              !.playerShipHorizontal = TRUE,
              !.shipId = 0,
              !.arduinoAttackMode = "HUNT_MODE",
              !.lastHitX = 0,
              !.lastHitY = 0,
              !.targetIndex = 0,
              !.targetListInitialized = FALSE,
              !.gameState = "PLACING_SHIPS"]

\* updateCursorPosition.  in.joyReady: currentTime - lastJoystickMoveTime >
\* JOYSTICK_MOVE_DELAY; in.xDir, in.yDir: -1 below CENTER - THRESHOLD, 1 above
\* CENTER + THRESHOLD, 0 between.
updateCursorPosition(s, in) ==
    IF ~in.joyReady
    THEN s
    ELSE [s EXCEPT
            !.cursorX = IF in.xDir = -1 THEN (IF @ > 0 THEN @ - 1 ELSE 0)
                        ELSE IF in.xDir = 1
                             THEN (IF @ < GRID_SIZE - 1 THEN @ + 1 ELSE GRID_SIZE - 1)
                             ELSE @,
            !.cursorY = IF in.yDir = -1 THEN (IF @ > 0 THEN @ - 1 ELSE 0)
                        ELSE IF in.yDir = 1
                             THEN (IF @ < GRID_SIZE - 1 THEN @ + 1 ELSE GRID_SIZE - 1)
                             ELSE @]

\* The red-button debounce shared by playerPlaceShips and playerAttack: TRUE when
\* this tick takes the reading as a new button state.  in.redElapsed:
\* millis() - lastRedDebounceTime > debounceDelay, which is false in the tick that
\* has just restarted the timer.
redAccepted_LevelTriggered(s, in) ==
    IF in.red # s.lastRedButtonState THEN FALSE ELSE in.redElapsed

redAccepted(s, in) ==
    /\ (IF in.red # s.lastRedButtonState THEN FALSE ELSE in.redElapsed)
    /\ in.red # s.redButtonState

\* playerPlaceShips, the branch of a confirmation canPlaceShip accepts.
acceptPlacement_IndexAsId(s) ==
    [s EXCEPT !.playerGrid = placeShip(s.playerGrid, s.cursorX, s.cursorY,
                                       ships[s.shipId + 1], s.playerShipHorizontal,
                                       s.shipId),
              !.shipId = @ + 1,
              !.ev.act = "placed", !.ev.x = s.cursorX, !.ev.y = s.cursorY]

acceptPlacement(s) ==
    [s EXCEPT !.playerGrid = placeShip(s.playerGrid, s.cursorX, s.cursorY,
                                       ships[s.shipId + 1], s.playerShipHorizontal,
                                       s.shipId + 1),
              !.shipId = @ + 1,
              !.ev.act = "placed", !.ev.x = s.cursorX, !.ev.y = s.cursorY]

\* playerPlaceShips, the branch of a confirmation canPlaceShip refuses.
rejectPlacement_SkipsShip(s) ==
    [s EXCEPT !.shipId = @ + 1,
              !.ev.act = "rejected", !.ev.x = s.cursorX, !.ev.y = s.cursorY]

rejectPlacement(s) ==
    [s EXCEPT !.ev.act = "rejected", !.ev.x = s.cursorX, !.ev.y = s.cursorY]

playerPlaceShips_ArduinoFirst(s, in) ==
    IF s.shipId >= NUM_SHIPS
    THEN [s EXCEPT !.gameState = "ARDUINO_TURN", !.ev.act = "allPlaced"]
    ELSE LET c == updateCursorPosition(s, in)
             s1 == IF redAccepted(c, in) THEN [c EXCEPT !.redButtonState = in.red] ELSE c
             s2 == IF redAccepted(c, in) /\ in.red = "LOW"
                   THEN IF canPlaceShip(s1.playerGrid, s1.cursorX, s1.cursorY,
                                        ships[s1.shipId + 1], s1.playerShipHorizontal)
                        THEN acceptPlacement(s1)
                        ELSE rejectPlacement(s1)
                   ELSE s1
         IN  [s2 EXCEPT !.lastRedButtonState = in.red]

playerPlaceShips(s, in) ==
    IF s.shipId >= NUM_SHIPS
    THEN [s EXCEPT !.gameState = "PLAYER_TURN", !.ev.act = "allPlaced"]
    ELSE LET c == updateCursorPosition(s, in)
             s1 == IF redAccepted(c, in) THEN [c EXCEPT !.redButtonState = in.red] ELSE c
             s2 == IF redAccepted(c, in) /\ in.red = "LOW"
                   THEN IF canPlaceShip(s1.playerGrid, s1.cursorX, s1.cursorY,
                                        ships[s1.shipId + 1], s1.playerShipHorizontal)
                        THEN acceptPlacement(s1)
                        ELSE rejectPlacement(s1)
                   ELSE s1
         IN  [s2 EXCEPT !.lastRedButtonState = in.red]

(***************************************************************************)
(* battle_ship_serial_monitor.ino: attacks.                                *)
(***************************************************************************)
\* playerAttack, the branch for an untried cell up to the win check: the attack
\* at the cursor is resolved against arduinoGrid.
resolvePlayerAttack_MarkMiss(s) ==
    LET x == s.cursorX
        y == s.cursorY
    IN  IF s.arduinoGrid[x][y] > 0
        THEN [s EXCEPT !.playerAttackGrid[x][y] = ATTACK_HIT,
                       !.arduinoGrid[x][y] = SHIP_HIT,
                       !.ev.act = "playerHit", !.ev.x = x, !.ev.y = y]
        ELSE [s EXCEPT !.playerAttackGrid[x][y] = ATTACK_MISS,
                       !.arduinoGrid[x][y] = ATTACK_MISS,
                       !.ev.act = "playerMiss", !.ev.x = x, !.ev.y = y]

resolvePlayerAttack_AttackGridOnly(s) ==
    LET x == s.cursorX
        y == s.cursorY
    IN  IF s.arduinoGrid[x][y] > 0
        THEN [s EXCEPT !.playerAttackGrid[x][y] = ATTACK_HIT,
                       !.ev.act = "playerHit", !.ev.x = x, !.ev.y = y]
        ELSE [s EXCEPT !.playerAttackGrid[x][y] = ATTACK_MISS,
                       !.ev.act = "playerMiss", !.ev.x = x, !.ev.y = y]

resolvePlayerAttack(s) ==
    LET x == s.cursorX
        y == s.cursorY
    IN  IF s.arduinoGrid[x][y] > 0
        THEN [s EXCEPT !.playerAttackGrid[x][y] = ATTACK_HIT,
                       !.arduinoGrid[x][y] = SHIP_HIT,
                       !.ev.act = "playerHit", !.ev.x = x, !.ev.y = y]
        ELSE [s EXCEPT !.playerAttackGrid[x][y] = ATTACK_MISS,
                       !.ev.act = "playerMiss", !.ev.x = x, !.ev.y = y]

\* playerAttack, the branch for a cell that was attacked before.
alreadyTried_LosesTurn(s) ==
    [s EXCEPT !.gameState = "ARDUINO_TURN",
              !.ev.act = "alreadyTried", !.ev.x = s.cursorX, !.ev.y = s.cursorY]

alreadyTried(s) ==
    [s EXCEPT !.ev.act = "alreadyTried", !.ev.x = s.cursorX, !.ev.y = s.cursorY]

playerAttack(s, in) ==
    LET c == updateCursorPosition(s, in)
        s1 == IF redAccepted(c, in) THEN [c EXCEPT !.redButtonState = in.red] ELSE c
    IN  IF redAccepted(c, in) /\ in.red = "LOW"
        THEN IF s1.playerAttackGrid[s1.cursorX][s1.cursorY] = ATTACK_UNTRIED
             THEN LET s2 == resolvePlayerAttack(s1)
                      arduinoShipsRemaining == countRemainingShips(s2.arduinoGrid)
                  IN  IF arduinoShipsRemaining = 0
                      THEN [s2 EXCEPT !.gameState = "GAME_OVER"]
                      ELSE [s2 EXCEPT !.gameState = "ARDUINO_TURN",
                                      !.lastRedButtonState = in.red]
             ELSE [alreadyTried(s1) EXCEPT !.lastRedButtonState = in.red]
        ELSE [s1 EXCEPT !.lastRedButtonState = in.red]

\* The hunt branch recording a miss on the player's grid as well.
huntAttack_MarksDefender(s, h) ==
    LET x == h[1]
        y == h[2]
    IN  IF s.playerGrid[x][y] > 0
        THEN [s EXCEPT !.arduinoAttackGrid[x][y] = ATTACK_HIT,
                       !.playerGrid[x][y] = SHIP_HIT,
                       !.lastHitX = x,
                       !.lastHitY = y,
                       !.arduinoAttackMode = "TARGET_MODE",
                       !.targetIndex = 0,
                       !.targetListInitialized = FALSE,
                       !.ev.act = "arduinoHit", !.ev.x = x, !.ev.y = y]
        ELSE [s EXCEPT !.arduinoAttackGrid[x][y] = ATTACK_MISS,
                       !.playerGrid[x][y] = ATTACK_MISS,
                       !.ev.act = "arduinoMiss", !.ev.x = x, !.ev.y = y]

\* The hunt branch leaving targetIndex where the last target list ended.
huntAttack_KeepsIndex(s, h) ==
    LET x == h[1]
        y == h[2]
    IN  IF s.playerGrid[x][y] > 0
        THEN [s EXCEPT !.arduinoAttackGrid[x][y] = ATTACK_HIT,
                       !.playerGrid[x][y] = SHIP_HIT,
                       !.lastHitX = x,
                       !.lastHitY = y,
                       !.arduinoAttackMode = "TARGET_MODE",
                       !.targetListInitialized = FALSE,
                       !.ev.act = "arduinoHit", !.ev.x = x, !.ev.y = y]
        ELSE [s EXCEPT !.arduinoAttackGrid[x][y] = ATTACK_MISS,
                       !.ev.act = "arduinoMiss", !.ev.x = x, !.ev.y = y]

\* Hunt branch of arduinoAttack; h is the cell the sampling loop ended with.
huntAttack_SwapsAnchor(s, h) ==
    LET x == h[1]
        y == h[2]
    IN  IF s.playerGrid[x][y] > 0
        THEN [s EXCEPT !.arduinoAttackGrid[x][y] = ATTACK_HIT,
                       !.playerGrid[x][y] = SHIP_HIT,
                       !.lastHitX = y,
                       !.lastHitY = x,
                       !.arduinoAttackMode = "TARGET_MODE",
                       !.targetIndex = 0,
                       !.targetListInitialized = FALSE,
                       !.ev.act = "arduinoHit", !.ev.x = x, !.ev.y = y]
        ELSE [s EXCEPT !.arduinoAttackGrid[x][y] = ATTACK_MISS,
                       !.ev.act = "arduinoMiss", !.ev.x = x, !.ev.y = y]

huntAttack(s, h) ==
    LET x == h[1]
        y == h[2]
    IN  IF s.playerGrid[x][y] > 0
        THEN [s EXCEPT !.arduinoAttackGrid[x][y] = ATTACK_HIT,
                       !.playerGrid[x][y] = SHIP_HIT,
                       !.lastHitX = x,
                       !.lastHitY = y,
                       !.arduinoAttackMode = "TARGET_MODE",
                       !.targetIndex = 0,
                       !.targetListInitialized = FALSE,
                       !.ev.act = "arduinoHit", !.ev.x = x, !.ev.y = y]
        ELSE [s EXCEPT !.arduinoAttackGrid[x][y] = ATTACK_MISS,
                       !.ev.act = "arduinoMiss", !.ev.x = x, !.ev.y = y]

\* The target list filled in the order up, down, left, right.
initTargetList_UpFirst(s) ==
    IF s.targetListInitialized
    THEN s
    ELSE LET adj == (IF s.lastHitY > 0 THEN <<(<<s.lastHitX, s.lastHitY - 1>>)>> ELSE <<>>)
                    \o (IF s.lastHitY < GRID_SIZE - 1
                        THEN <<(<<s.lastHitX, s.lastHitY + 1>>)>> ELSE <<>>)
                    \o (IF s.lastHitX > 0 THEN <<(<<s.lastHitX - 1, s.lastHitY>>)>> ELSE <<>>)
                    \o (IF s.lastHitX < GRID_SIZE - 1
                        THEN <<(<<s.lastHitX + 1, s.lastHitY>>)>> ELSE <<>>)
         IN  [s EXCEPT !.targetIndex = 0,
                       !.targetList = [i \in 0 .. 3 |->
                                          IF i < Len(adj) THEN adj[i + 1] ELSE @[i]],
                       !.targetListInitialized = TRUE]

\* Target branch, first part: the target list is filled from index 0 with the
\* neighbours that exist; the entries behind them keep what they held.
initTargetList(s) ==
    IF s.targetListInitialized
    THEN s
    ELSE LET adj == (IF s.lastHitX > 0 THEN <<(<<s.lastHitX - 1, s.lastHitY>>)>> ELSE <<>>)
                    \o (IF s.lastHitX < GRID_SIZE - 1
                        THEN <<(<<s.lastHitX + 1, s.lastHitY>>)>> ELSE <<>>)
                    \o (IF s.lastHitY > 0 THEN <<(<<s.lastHitX, s.lastHitY - 1>>)>> ELSE <<>>)
                    \o (IF s.lastHitY < GRID_SIZE - 1
                        THEN <<(<<s.lastHitX, s.lastHitY + 1>>)>> ELSE <<>>)
         IN  [s EXCEPT !.targetIndex = 0,
                       !.targetList = [i \in 0 .. 3 |->
                                          IF i < Len(adj) THEN adj[i + 1] ELSE @[i]],
                       !.targetListInitialized = TRUE]

\* Target branch, second part: the while loop over targetList.  found is the index
\* of the entry it stops at, or 4 when it runs off the end.
targetScan(s) ==
    LET untried == {i \in s.targetIndex .. 3 :
                       s.arduinoAttackGrid[s.targetList[i][1]][s.targetList[i][2]]
                           = ATTACK_UNTRIED}
        found == IF untried = {} THEN 4
                 ELSE CHOOSE i \in untried : \A j \in untried : i <= j
    IN  [validAttack |-> untried # {},
         found |-> found,
         targetIndex |-> IF untried # {} THEN found + 1
                         ELSE IF s.targetIndex < 4 THEN 4 ELSE s.targetIndex]

\* The miss branch of target mode giving the chase up.
targetAttack_MissGivesUp(s) ==
    LET scan == targetScan(s)
        x == s.targetList[scan.found][1]
        y == s.targetList[scan.found][2]
        s1 == [s EXCEPT !.targetIndex = scan.targetIndex]
    IN  IF s1.playerGrid[x][y] > 0
        THEN [s1 EXCEPT !.arduinoAttackGrid[x][y] = ATTACK_HIT,
                        !.playerGrid[x][y] = SHIP_HIT,
                        !.lastHitX = x,
                        !.lastHitY = y,
                        !.targetIndex = 0,
                        !.targetListInitialized = FALSE,
                        !.ev.act = "arduinoHit", !.ev.x = x, !.ev.y = y]
        ELSE [s1 EXCEPT !.arduinoAttackGrid[x][y] = ATTACK_MISS,
                        !.arduinoAttackMode = "HUNT_MODE",
                        !.ev.act = "arduinoMiss", !.ev.x = x, !.ev.y = y]

\* The hit branch of target mode keeping the previous lastHit.
targetAttack_KeepsLastHit(s) ==
    LET scan == targetScan(s)
        x == s.targetList[scan.found][1]
        y == s.targetList[scan.found][2]
        s1 == [s EXCEPT !.targetIndex = scan.targetIndex]
    IN  IF s1.playerGrid[x][y] > 0
        THEN [s1 EXCEPT !.arduinoAttackGrid[x][y] = ATTACK_HIT,
                        !.playerGrid[x][y] = SHIP_HIT,
                        !.targetIndex = 0,
                        !.targetListInitialized = FALSE,
                        !.ev.act = "arduinoHit", !.ev.x = x, !.ev.y = y]
        ELSE [s1 EXCEPT !.arduinoAttackGrid[x][y] = ATTACK_MISS,
                        !.ev.act = "arduinoMiss", !.ev.x = x, !.ev.y = y]

\* The hit and miss branches of target mode, at the entry the scan stopped at.
targetAttack(s) ==
    LET scan == targetScan(s)
        x == s.targetList[scan.found][1]
        y == s.targetList[scan.found][2]
        s1 == [s EXCEPT !.targetIndex = scan.targetIndex]
    IN  IF s1.playerGrid[x][y] > 0
        THEN [s1 EXCEPT !.arduinoAttackGrid[x][y] = ATTACK_HIT,
                        !.playerGrid[x][y] = SHIP_HIT,
                        !.lastHitX = x,
                        !.lastHitY = y,
                        !.targetIndex = 0,
                        !.targetListInitialized = FALSE,
                        !.ev.act = "arduinoHit", !.ev.x = x, !.ev.y = y]
        ELSE [s1 EXCEPT !.arduinoAttackGrid[x][y] = ATTACK_MISS,
                        !.ev.act = "arduinoMiss", !.ev.x = x, !.ev.y = y]

\* The end of arduinoAttack handing the turn back without looking at the counts.
arduinoAttackEnd_NoWinCheck(s) == [s EXCEPT !.gameState = "PLAYER_TURN"]

\* The end of arduinoAttack: the counts and the phase change.
arduinoAttackEnd(s) ==
    LET playerShipsRemaining == countRemainingShips(s.playerGrid)
    IN  IF playerShipsRemaining = 0
        THEN [s EXCEPT !.gameState = "GAME_OVER"]
        ELSE [s EXCEPT !.gameState = "PLAYER_TURN"]

\* arduinoAttack.  An exhausted target list switches to hunt mode and attacks
\* again in the same call.
arduinoAttack_GivesUp(s, h) ==
    IF s.arduinoAttackMode = "HUNT_MODE"
    THEN arduinoAttackEnd(huntAttack([s EXCEPT !.ev.via = IF @ = "none" THEN "hunt" ELSE @], h))
    ELSE LET s1 == initTargetList(s)
         IN  IF targetScan(s1).validAttack
             THEN arduinoAttackEnd(targetAttack([s1 EXCEPT !.ev.via = "target"]))
             ELSE [s1 EXCEPT !.targetIndex = targetScan(s1).targetIndex,
                             !.arduinoAttackMode = "HUNT_MODE",
                             !.ev.via = "fallback"]

RECURSIVE arduinoAttack(_, _)
arduinoAttack(s, h) ==
    IF s.arduinoAttackMode = "HUNT_MODE"
    THEN arduinoAttackEnd(huntAttack([s EXCEPT !.ev.via = IF @ = "none" THEN "hunt" ELSE @], h))
    ELSE LET s1 == initTargetList(s)
         IN  IF targetScan(s1).validAttack
             THEN arduinoAttackEnd(targetAttack([s1 EXCEPT !.ev.via = "target"]))
             ELSE arduinoAttack([s1 EXCEPT !.targetIndex = targetScan(s1).targetIndex,
                                           !.arduinoAttackMode = "HUNT_MODE",
                                           !.ev.via = "fallback"], h)

\* The calls of arduinoAttack nested inside the one made in state s, counted up
\* to MaxNest: the else branch of target mode calls arduinoAttack again.
MaxNest == 3

RECURSIVE nestedCalls_NoModeSwitch(_, _)
nestedCalls_NoModeSwitch(s, n) ==
    IF n >= MaxNest \/ s.arduinoAttackMode = "HUNT_MODE"
    THEN n
    ELSE LET s1 == initTargetList(s)
         IN  IF targetScan(s1).validAttack
             THEN n
             ELSE nestedCalls_NoModeSwitch(
                     [s1 EXCEPT !.targetIndex = targetScan(s1).targetIndex], n + 1)

\* The retry made without setting HUNT_MODE first.
arduinoAttackDepth_NoModeSwitch(s) == nestedCalls_NoModeSwitch(s, 0)

RECURSIVE nestedCalls(_, _)
nestedCalls(s, n) ==
    IF n >= MaxNest \/ s.arduinoAttackMode = "HUNT_MODE"
    THEN n
    ELSE LET s1 == initTargetList(s)
         IN  IF targetScan(s1).validAttack
             THEN n
             ELSE nestedCalls([s1 EXCEPT !.targetIndex = targetScan(s1).targetIndex,
                                         !.arduinoAttackMode = "HUNT_MODE"], n + 1)

arduinoAttackDepth(s) == nestedCalls(s, 0)

\* TRUE when arduinoAttack run in state s reaches the hunt-mode sampling loop.
reachesHunt(s) ==
    \/ s.arduinoAttackMode = "HUNT_MODE"
    \/ ~targetScan(initTargetList(s)).validAttack

untriedCells(grid) == {c \in Cells : grid[c[1]][c[2]] = ATTACK_UNTRIED}

(***************************************************************************)
(* battle_ship_serial_monitor.ino: loop().                                 *)
(*   blue, red         the pin levels read in this tick                    *)
(*   blueLong          millis() - blueButtonPressTime >= 5000              *)
(*   redElapsed, joyReady, xDir, yDir   see above                          *)
(* blueButtonState is written at the top of every loop() before it is      *)
(* read, so it is in.blue; blueButtonPressTime is seen through in.blueLong,*)
(* which is false in the tick that has just stored millis() in it.         *)
(***************************************************************************)
\* What the blue-button part of loop() reads in state s.  The elapsed-time
\* comparison is an input only in a tick that evaluates it on a running press.
BlueInputs(s) ==
    {in \in [blue : Levels, blueLong : BOOLEAN] :
        /\ in.blue = "LOW" => env.blue
        /\ in.blueLong =>
            /\ env.long
            /\ \/ (in.blue = "HIGH" /\ s.lastBlueButtonState = "LOW")
               \/ (in.blue = "LOW" /\ s.lastBlueButtonState = "LOW"
                       /\ ~s.blueButtonLongPressHandled)}

\* What the switch of loop() reads in state s (the state the blue-button part
\* left): the joystick and the red button, in the phases whose handler polls them.
GameInputs(s) ==
    IF \/ s.gameState = "PLAYER_TURN"
       \/ (s.gameState = "PLACING_SHIPS" /\ s.shipId < NUM_SHIPS)
    THEN {in \in [red : Levels, redElapsed : BOOLEAN, joyReady : BOOLEAN,
                  xDir : -1 .. 1, yDir : -1 .. 1] :
            /\ ~in.joyReady => (in.xDir = 0 /\ in.yDir = 0)
            /\ in.redElapsed => (in.red = s.lastRedButtonState)}
    ELSE {[red |-> "HIGH", redElapsed |-> FALSE, joyReady |-> FALSE, xDir |-> 0, yDir |-> 0]}

\* loop(), "Handle short press actions": the body run when blueButtonShortPress
\* is set.
shortPressAction_AnyPhase(s, layout) ==
    [resetGame([s EXCEPT !.blueButtonShortPress = FALSE], layout) EXCEPT !.ev.reset = "short"]

shortPressAction(s, layout) ==
    LET s3 == [s EXCEPT !.blueButtonShortPress = FALSE]
    IN  IF s3.gameState = "WAITING_TO_START" \/ s3.gameState = "GAME_OVER"
        THEN [resetGame(s3, layout) EXCEPT !.ev.reset = "short"]
        ELSE IF s3.gameState = "PLACING_SHIPS"
             THEN [s3 EXCEPT !.playerShipHorizontal = ~@, !.ev.toggle = TRUE]
             ELSE s3

\* loop() up to the switch: the blue button.
handleBlueButton(s, in, layout) ==
    LET pressed == in.blue # s.lastBlueButtonState /\ in.blue = "LOW"
        released == in.blue # s.lastBlueButtonState /\ in.blue # "LOW"
        s1 == IF pressed
              THEN [s EXCEPT !.blueButtonLongPressHandled = FALSE,
                             !.lastBlueButtonState = in.blue]
              ELSE IF released
                   THEN [s EXCEPT !.blueButtonShortPress = IF in.blueLong THEN @ ELSE TRUE,
                                  !.lastBlueButtonState = in.blue]
                   ELSE s
        pressDuration5000 == IF pressed THEN FALSE ELSE in.blueLong
        s2 == IF in.blue = "LOW" /\ ~s1.blueButtonLongPressHandled /\ pressDuration5000
              THEN [resetGame(s1, layout) EXCEPT !.blueButtonLongPressHandled = TRUE,
                                                 !.blueButtonShortPress = FALSE,
                                                 !.ev.reset = "long"]
              ELSE s1
    IN  IF s2.blueButtonShortPress THEN shortPressAction(s2, layout) ELSE s2

\* The switch of loop() with the cursor polled in the idle phases as well.
handleGameState_CursorWhenIdle(s, in, h) ==
    CASE s.gameState = "WAITING_TO_START" -> updateCursorPosition(s, in)
      [] s.gameState = "PLACING_SHIPS" -> playerPlaceShips(s, in)
      [] s.gameState = "PLAYER_TURN" -> playerAttack(s, in)
      [] s.gameState = "ARDUINO_TURN" -> arduinoAttack(s, h)
      [] s.gameState = "GAME_OVER" -> updateCursorPosition(s, in)

\* The switch of loop().
handleGameState(s, in, h) ==
    CASE s.gameState = "WAITING_TO_START" -> s
      [] s.gameState = "PLACING_SHIPS" -> playerPlaceShips(s, in)
      [] s.gameState = "PLAYER_TURN" -> playerAttack(s, in)
      [] s.gameState = "ARDUINO_TURN" -> arduinoAttack(s, h)
      [] s.gameState = "GAME_OVER" -> s

\* TRUE when the blue-button part of this tick calls resetGame.
resetFires(s, in) ==
    handleBlueButton([s EXCEPT !.ev = NoEvent(s.gameState)], in, s.arduinoGrid).ev.reset
        # "none"

\* The grids placeArduinoShips can end with in this run.
fleets ==
    IF env.fleet = "first" THEN {CHOOSE g \in placeArduinoShips : TRUE} ELSE placeArduinoShips

loop ==
    /\ gameState \notin env.stop
    /\ \E b \in BlueInputs(St) :
         \E layout \in (IF resetFires(St, b) THEN fleets ELSE {arduinoGrid}) :
            LET s1 == handleBlueButton([St EXCEPT !.ev = NoEvent(gameState)], b, layout)
            IN  \E in \in GameInputs(s1) :
                  \E h \in (IF s1.gameState = "ARDUINO_TURN" /\ reachesHunt(s1)
                            THEN untriedCells(s1.arduinoAttackGrid)
                            ELSE {<<0, 0>>}) :
                     Becomes(handleGameState(s1, in, h))

\* The environments.  blue: the blue button is operated; long: it is held for
\* 5 s or more; stop: the phases at which the run is left alone; fleet: the
\* draws of placeArduinoShips, any of them or always the same ones.
AnyUse == [blue |-> TRUE, long |-> TRUE, stop |-> {}, fleet |-> "any"]

NoButtons == [blue |-> FALSE, long |-> FALSE, stop |-> {}, fleet |-> "any"]

\* The globals as sketch k declares them, for a build of side n with roster r.
InitSketch(k, n, r, e) ==
    /\ sketch = k
    /\ GRID_SIZE = n
    /\ ships = r
    /\ env = e
    /\ gameState = "WAITING_TO_START"
    /\ playerGrid = [x \in 0 .. (n - 1) |-> [y \in 0 .. (n - 1) |-> 0]]
    /\ arduinoGrid = [x \in 0 .. (n - 1) |-> [y \in 0 .. (n - 1) |-> 0]]
    /\ playerAttackGrid = [x \in 0 .. (n - 1) |-> [y \in 0 .. (n - 1) |-> 0]]
    /\ arduinoAttackGrid = [x \in 0 .. (n - 1) |-> [y \in 0 .. (n - 1) |-> 0]]
    /\ cursorX = 0
    /\ cursorY = 0
    /\ redButtonState = "HIGH"
    /\ lastRedButtonState = "HIGH"
    /\ lastBlueButtonState = "HIGH"
    /\ blueButtonLongPressHandled = FALSE
    /\ blueButtonShortPress = FALSE
    /\ playerShipHorizontal = TRUE
    /\ arduinoAttackMode = "HUNT_MODE"
    /\ lastHitX = 0
    /\ lastHitY = 0
    /\ targetIndex = 0
    /\ targetList = [i \in 0 .. 3 |-> <<0, 0>>]
    /\ targetListInitialized = FALSE
    /\ shipId = 0
    /\ ev = NoEvent("WAITING_TO_START")

Init == InitSketch("serial_monitor", GameGridSize, GameShips, AnyUse)

Next == loop

Spec == Init /\ [][Next]_vars

(***************************************************************************)
(* The battle of a first game, from the tick that found every ship placed. *)
(* The blue button is left alone, so the game runs to its end.             *)
(***************************************************************************)
\* The ways to place the roster from index id on, by the accepted branch of
\* playerPlaceShips: the grid, and the cursor and orientation of the last ship.
RECURSIVE playerPlacementsFrom(_, _)
playerPlacementsFrom(p, id) ==
    IF id >= NUM_SHIPS
    THEN {p}
    ELSE UNION { playerPlacementsFrom(
                    [grid |-> placeShip(p.grid, c[1], c[2], ships[id + 1], c[3], id + 1),
                     x |-> c[1], y |-> c[2], horizontal |-> c[3]], id + 1) :
                 c \in {d \in Coord \X Coord \X BOOLEAN :
                            canPlaceShip(p.grid, d[1], d[2], ships[id + 1], d[3])} }

RedOnly == [blue |-> FALSE, long |-> FALSE, stop |-> {}, fleet |-> "any"]

InitBattle ==
    /\ sketch = "serial_monitor"
    /\ GRID_SIZE = BattleGridSize
    /\ ships = BattleShips
    /\ env = RedOnly
    /\ gameState = "PLAYER_TURN"
    /\ arduinoGrid \in placeArduinoShips
    /\ \E p \in playerPlacementsFrom([grid |-> FilledGrid(EMPTY), x |-> 0, y |-> 0,
                                       horizontal |-> TRUE], 0) :
            /\ playerGrid = p.grid
            /\ cursorX = p.x
            /\ cursorY = p.y
            /\ playerShipHorizontal = p.horizontal
    /\ playerAttackGrid = FilledGrid(ATTACK_UNTRIED)
    /\ arduinoAttackGrid = FilledGrid(ATTACK_UNTRIED)
    /\ redButtonState = "LOW"
    /\ lastRedButtonState = "LOW"
    /\ lastBlueButtonState = "HIGH"
    /\ blueButtonLongPressHandled = FALSE
    /\ blueButtonShortPress = FALSE
    /\ arduinoAttackMode = "HUNT_MODE"
    /\ lastHitX = 0
    /\ lastHitY = 0
    /\ targetIndex = 0
    /\ targetList = [i \in 0 .. 3 |-> <<0, 0>>]
    /\ targetListInitialized = FALSE
    /\ shipId = NUM_SHIPS
    /\ ev = [NoEvent("PLACING_SHIPS") EXCEPT !.act = "allPlaced"]

SpecBattle == InitBattle /\ [][Next]_vars

(***************************************************************************)
(* The placement phase on a board with room for a refused and for a second *)
(* ship.  The run is left alone once the battle starts; playerPlaceShips   *)
(* reads nothing of the Arduino's fleet, which is the same in every game.  *)
(***************************************************************************)
PlacementOnly == [blue |-> TRUE, long |-> TRUE, stop |-> {"PLAYER_TURN"}, fleet |-> "first"]

InitPlace == InitSketch("serial_monitor", PlaceGridSize, PlaceShips, PlacementOnly)

SpecPlace == InitPlace /\ [][Next]_vars

(***************************************************************************)
(* The phase machine of battle_ship_serial_monitor.ino.                    *)
(***************************************************************************)
\* The edges of the phase table, each with the event that takes it.
TableEdge(from, to, e) ==
    \/ from = "WAITING_TO_START" /\ to = "PLACING_SHIPS" /\ e.reset # "none"
    \/ from = "PLACING_SHIPS" /\ to = "PLAYER_TURN" /\ e.act = "allPlaced"
    \/ from = "PLAYER_TURN" /\ to = "ARDUINO_TURN" /\ e.act \in {"playerHit", "playerMiss"}
    \/ from = "PLAYER_TURN" /\ to = "GAME_OVER" /\ e.act \in {"playerHit", "playerMiss"}
    \/ from = "ARDUINO_TURN" /\ to = "PLAYER_TURN" /\ e.act \in {"arduinoHit", "arduinoMiss"}
    \/ from = "ARDUINO_TURN" /\ to = "GAME_OVER" /\ e.act \in {"arduinoHit", "arduinoMiss"}
    \/ from = "GAME_OVER" /\ to = "PLACING_SHIPS" /\ e.reset # "none"

\* The edge the long-press check of loop() adds: resetGame in the middle of a battle.
LongPressEdge(from, to, e) ==
    /\ from \in {"PLAYER_TURN", "ARDUINO_TURN"}
    /\ to = "PLACING_SHIPS"
    /\ e.reset = "long"

\* C1 as stated: the phase changes only along the edges of the table, so
\* PLACING_SHIPS is never entered from PLAYER_TURN or ARDUINO_TURN.
C1_TableEdgesOnly ==
    [][gameState' # gameState => TableEdge(gameState, gameState', ev')]_vars

\* C1, amended: the phase changes only along the edges of the table or, by a
\* blue-button hold of 5 s that runs resetGame, from PLAYER_TURN or ARDUINO_TURN
\* to PLACING_SHIPS; a short press never takes the phase out of a battle.
C1_PhaseEdges ==
    [][gameState' # gameState =>
        \/ TableEdge(gameState, gameState', ev')
        \/ LongPressEdge(gameState, gameState', ev')]_vars

\* A battle was cut short by a long press: the tick started in PLAYER_TURN and
\* ended in PLACING_SHIPS with the grids cleared.
C1_Witness ==
    /\ ev.pre = "PLAYER_TURN"
    /\ ev.reset = "long"
    /\ gameState = "PLACING_SHIPS"
    /\ shipId = 0

(***************************************************************************)
(* src/unnamed/part_001: the sketch that keeps the roster index in a       *)
(* static local of playerPlaceShips, marks every ship cell SHIP_PRESENT    *)
(* and lets the Arduino attack at random.  shipId is that static local.    *)
(***************************************************************************)
\* canPlaceShip of part_001, one pass of a for loop from index i on: the value
\* returned and the cells read on the way.  A cell off the grid is recorded as
\* read; the bounds checks of canPlaceShip keep the loops from reaching one.
RECURSIVE canPlaceScan_001(_, _, _, _, _, _, _)
canPlaceScan_001(grid, x, y, size, horizontal, i, reads) ==
    IF i >= size
    THEN [result |-> TRUE, reads |-> reads]
    ELSE LET c == IF horizontal THEN <<x + i, y>> ELSE <<x, y + i>>
         IN  IF c \notin Cells
             THEN [result |-> FALSE, reads |-> reads \cup {c}]
             ELSE IF grid[c[1]][c[2]] # EMPTY
                  THEN [result |-> FALSE, reads |-> reads \cup {c}]
                  ELSE canPlaceScan_001(grid, x, y, size, horizontal, i + 1, reads \cup {c})

\* canPlaceShip of part_001 with the cells it reads.
canPlaceRun_NoBoundsCheck_001(grid, x, y, size, horizontal) ==
    canPlaceScan_001(grid, x, y, size, horizontal, 0, {})

canPlaceRun_001(grid, x, y, size, horizontal) ==
    IF horizontal
    THEN IF x + size > GRID_SIZE
         THEN [result |-> FALSE, reads |-> {}]
         ELSE canPlaceScan_001(grid, x, y, size, horizontal, 0, {})
    ELSE IF y + size > GRID_SIZE
         THEN [result |-> FALSE, reads |-> {}]
         ELSE canPlaceScan_001(grid, x, y, size, horizontal, 0, {})

canPlaceShip_001(grid, x, y, size, horizontal) ==
    canPlaceRun_001(grid, x, y, size, horizontal).result

placeShip_001(grid, x, y, size, horizontal, id) ==
    [xx \in Coord |-> [yy \in Coord |->
        IF horizontal
        THEN IF yy = y /\ xx >= x /\ xx < x + size THEN SHIP_PRESENT ELSE grid[xx][yy]
        ELSE IF xx = x /\ yy >= y /\ yy < y + size THEN SHIP_PRESENT ELSE grid[xx][yy]]]

RECURSIVE placeArduinoShipsFrom_001(_, _)
placeArduinoShipsFrom_001(grid, id) ==
    IF id >= NUM_SHIPS
    THEN {grid}
    ELSE UNION { placeArduinoShipsFrom_001(
                    placeShip_001(grid, c[1], c[2], ships[id + 1], c[3], id + 1), id + 1) :
                 c \in {d \in Coord \X Coord \X BOOLEAN :
                            canPlaceShip_001(grid, d[1], d[2], ships[id + 1], d[3])} }

placeArduinoShips_001 == placeArduinoShipsFrom_001(FilledGrid(EMPTY), 0)

\* resetGame of part_001: the grids, the cursor, the two last button states and
\* the phase, and nothing else.
resetGame_001(s, layout) ==
    [s EXCEPT !.playerGrid = FilledGrid(EMPTY),
              !.arduinoGrid = layout,
              !.playerAttackGrid = FilledGrid(ATTACK_UNTRIED),
              !.arduinoAttackGrid = FilledGrid(ATTACK_UNTRIED),
              !.cursorX = 0,
              !.cursorY = 0,
              !.lastRedButtonState = "HIGH",
              !.lastBlueButtonState = "HIGH",
              !.gameState = "PLACING_SHIPS"]

\* playerPlaceShips of part_001.  in.blue is the level loop() has stored in
\* blueButtonState, in.blueReading the level read here, in.blueElapsed the
\* comparison millis() - lastBlueDebounceTime > debounceDelay.
playerPlaceShips_001(s, in) ==
    IF s.shipId >= NUM_SHIPS
    THEN [s EXCEPT !.gameState = "PLAYER_TURN", !.ev.act = "allPlaced"]
    ELSE LET c == updateCursorPosition(s, in)
             s1 == IF redAccepted(c, in) THEN [c EXCEPT !.redButtonState = in.red] ELSE c
             s2 == IF redAccepted(c, in) /\ in.red = "LOW"
                   THEN IF canPlaceShip_001(s1.playerGrid, s1.cursorX, s1.cursorY,
                                            ships[s1.shipId + 1], s1.playerShipHorizontal)
                        THEN [s1 EXCEPT
                                !.playerGrid = placeShip_001(@, s1.cursorX, s1.cursorY,
                                                             ships[s1.shipId + 1],
                                                             s1.playerShipHorizontal,
                                                             s1.shipId + 1),
                                !.shipId = @ + 1,
                                !.ev.act = "placed", !.ev.x = s1.cursorX, !.ev.y = s1.cursorY]
                        ELSE [s1 EXCEPT !.ev.act = "rejected",
                                        !.ev.x = s1.cursorX, !.ev.y = s1.cursorY]
                   ELSE s1
             s3 == [s2 EXCEPT !.lastRedButtonState = in.red]
             blueAccepted ==
                /\ (IF in.blueReading # s3.lastBlueButtonState THEN FALSE ELSE in.blueElapsed)
                /\ in.blueReading # in.blue
             s4 == IF blueAccepted /\ in.blueReading = "LOW"
                   THEN [s3 EXCEPT !.playerShipHorizontal = ~@, !.ev.toggle = TRUE]
                   ELSE s3
         IN  [s4 EXCEPT !.lastBlueButtonState = in.blueReading]

checkWin_001(grid) == \A c \in Cells : grid[c[1]][c[2]] # SHIP_PRESENT

playerAttack_001(s, in) ==
    LET c == updateCursorPosition(s, in)
        s1 == IF redAccepted(c, in) THEN [c EXCEPT !.redButtonState = in.red] ELSE c
        x == s1.cursorX
        y == s1.cursorY
    IN  IF redAccepted(c, in) /\ in.red = "LOW"
        THEN IF s1.playerAttackGrid[x][y] = ATTACK_UNTRIED
             THEN LET s2 == IF s1.arduinoGrid[x][y] = SHIP_PRESENT
                            THEN [s1 EXCEPT !.playerAttackGrid[x][y] = ATTACK_HIT,
                                            !.arduinoGrid[x][y] = SHIP_HIT,
                                            !.ev.act = "playerHit", !.ev.x = x, !.ev.y = y]
                            ELSE [s1 EXCEPT !.playerAttackGrid[x][y] = ATTACK_MISS,
                                            !.ev.act = "playerMiss", !.ev.x = x, !.ev.y = y]
                  IN  IF checkWin_001(s2.arduinoGrid)
                      THEN [s2 EXCEPT !.gameState = "GAME_OVER"]
                      ELSE [s2 EXCEPT !.gameState = "ARDUINO_TURN",
                                      !.lastRedButtonState = in.red]
             ELSE [s1 EXCEPT !.ev.act = "alreadyTried", !.ev.x = x, !.ev.y = y,
                             !.lastRedButtonState = in.red]
        ELSE [s1 EXCEPT !.lastRedButtonState = in.red]

\* arduinoAttack of part_001; h is the cell the sampling loop ended with.
arduinoAttack_001(s, h) ==
    IF \A c \in Cells : s.arduinoAttackGrid[c[1]][c[2]] # ATTACK_UNTRIED
    THEN [s EXCEPT !.gameState = "GAME_OVER", !.ev.act = "noPositionsLeft"]
    ELSE LET x == h[1]
             y == h[2]
             s1 == IF s.playerGrid[x][y] = SHIP_PRESENT
                   THEN [s EXCEPT !.arduinoAttackGrid[x][y] = ATTACK_HIT,
                                  !.playerGrid[x][y] = SHIP_HIT,
                                  !.ev.act = "arduinoHit", !.ev.x = x, !.ev.y = y]
                   ELSE [s EXCEPT !.arduinoAttackGrid[x][y] = ATTACK_MISS,
                                  !.ev.act = "arduinoMiss", !.ev.x = x, !.ev.y = y]
         IN  IF checkWin_001(s1.playerGrid)
             THEN [s1 EXCEPT !.gameState = "GAME_OVER"]
             ELSE [s1 EXCEPT !.gameState = "PLAYER_TURN"]

\* loop() of part_001 up to the switch: the blue button starts a game.
handleBlueButton_001(s, in, layout) ==
    IF s.gameState = "WAITING_TO_START" \/ s.gameState = "GAME_OVER"
    THEN LET s1 == IF in.blue # s.lastBlueButtonState /\ in.blue = "LOW"
                   THEN [resetGame_001(s, layout) EXCEPT !.ev.reset = "press"]
                   ELSE s
         IN  [s1 EXCEPT !.lastBlueButtonState = in.blue]
    ELSE s

handleGameState_001(s, in, h) ==
    CASE s.gameState = "WAITING_TO_START" -> s
      [] s.gameState = "PLACING_SHIPS" -> playerPlaceShips_001(s, in)
      [] s.gameState = "PLAYER_TURN" -> playerAttack_001(s, in)
      [] s.gameState = "ARDUINO_TURN" -> arduinoAttack_001(s, h)
      [] s.gameState = "GAME_OVER" -> s

\* What a tick of part_001 reads in state s, the state its blue-button part left
\* after reading the level blue.
GameInputs_001(s, blue) ==
    LET polls == \/ s.gameState = "PLAYER_TURN"
                 \/ (s.gameState = "PLACING_SHIPS" /\ s.shipId < NUM_SHIPS)
        placing == s.gameState = "PLACING_SHIPS" /\ s.shipId < NUM_SHIPS
    IN  {in \in [blue : {blue}, blueReading : Levels, blueElapsed : BOOLEAN,
                 red : Levels, redElapsed : BOOLEAN, joyReady : BOOLEAN,
                 xDir : -1 .. 1, yDir : -1 .. 1] :
            /\ ~in.joyReady => (in.xDir = 0 /\ in.yDir = 0)
            /\ in.redElapsed => (in.red = s.lastRedButtonState)
            /\ in.blueElapsed => (in.blueReading = s.lastBlueButtonState)
            /\ ~polls => (in.red = "HIGH" /\ ~in.redElapsed /\ ~in.joyReady)
            /\ ~placing => (in.blueReading = blue /\ ~in.blueElapsed)}

loop_001 ==
    /\ gameState \notin env.stop
    /\ \E blue \in Levels :
         LET s0 == [St EXCEPT !.ev = NoEvent(gameState)]
             b == [blue |-> blue]
             fires == handleBlueButton_001(s0, b, arduinoGrid).ev.reset # "none"
         IN  \E layout \in (IF fires THEN placeArduinoShips_001 ELSE {arduinoGrid}) :
                LET s1 == handleBlueButton_001(s0, b, layout)
                IN  \E in \in GameInputs_001(s1, blue) :
                      \E h \in (IF s1.gameState = "ARDUINO_TURN"
                                    /\ untriedCells(s1.arduinoAttackGrid) # {}
                                THEN untriedCells(s1.arduinoAttackGrid)
                                ELSE {<<0, 0>>}) :
                         Becomes(handleGameState_001(s1, in, h))

Init_001 == InitSketch("part_001", StaticGridSize, StaticShips, AnyUse)

Spec_001 == Init_001 /\ [][loop_001]_vars

(***************************************************************************)
(* The packed grids of src/unnamed/part_000 and of the listings of         *)
(* src/battle_ship_test_code.ino: a grid is an array of bytes, four cells  *)
(* of two bits to a byte.  Bytes are 0 .. 255; the operators of C on them: *)
(***************************************************************************)
Bit(a, k) == (a \div (2 ^ k)) % 2

And8(a, b) ==
    LET f[k \in 0 .. 8] == IF k = 8 THEN 0 ELSE Bit(a, k) * Bit(b, k) * (2 ^ k) + f[k + 1]
    IN  f[0]

Or8(a, b) ==
    LET f[k \in 0 .. 8] ==
            IF k = 8 THEN 0
            ELSE (IF Bit(a, k) + Bit(b, k) > 0 THEN 2 ^ k ELSE 0) + f[k + 1]
    IN  f[0]

\* The low byte of ~a.
Not8(a) == 255 - (a % 256)

\* The low byte of a << k, and a >> k.
Shl8(a, k) == (a * (2 ^ k)) % 256

Shr(a, k) == a \div (2 ^ k)

\* The length of a grid array: part_000 and the first listing of the test code
\* declare (GRID_SIZE * GRID_SIZE + 3) / 4 + 1 bytes, the later listings
\* totalGridBytes = (GRID_SIZE * GRID_SIZE * 2 + 7) / 8.
gridBytes ==
    IF sketch = "part_000"
    THEN (GRID_SIZE * GRID_SIZE + 3) \div 4 + 1
    ELSE (GRID_SIZE * GRID_SIZE * 2 + 7) \div 8

\* part_000 (and the first listing of the test code): index / 4 addressing.
setCellState_NoClear_000(grid, x, y, state) ==
    LET index == (y * GRID_SIZE + x) % 65536
        byteIndex == index \div 4
        bitOffset == (index % 4) * 2
    IN  [grid EXCEPT ![byteIndex] = Or8(@, Shl8(And8(state, 3), bitOffset))]

setCellState_000(grid, x, y, state) ==
    LET index == (y * GRID_SIZE + x) % 65536
        byteIndex == index \div 4
        bitOffset == (index % 4) * 2
        cleared == [grid EXCEPT ![byteIndex] = And8(@, Not8(Shl8(3, bitOffset)))]
    IN  [cleared EXCEPT ![byteIndex] = Or8(@, Shl8(And8(state, 3), bitOffset))]

getCellState_000(grid, x, y) ==
    LET index == (y * GRID_SIZE + x) % 65536
        byteIndex == index \div 4
        bitOffset == (index % 4) * 2
    IN  And8(Shr(grid[byteIndex], bitOffset), 3)

\* The second listing of the test code: bitIndex / 8 addressing, the byte index
\* held in a uint8_t.
setCellState_tc2(grid, x, y, state) ==
    LET index == (y * GRID_SIZE + x) % 65536
        bitIndex == (index * 2) % 65536
        byteIndex == (bitIndex \div 8) % 256
        bitOffset == bitIndex % 8
        cleared == [grid EXCEPT ![byteIndex] = And8(@, Not8(Shl8(3, bitOffset)))]
    IN  [cleared EXCEPT ![byteIndex] = Or8(@, Shl8(And8(state, 3), bitOffset))]

getCellState_tc2(grid, x, y) ==
    LET index == (y * GRID_SIZE + x) % 65536
        bitIndex == (index * 2) % 65536
        byteIndex == (bitIndex \div 8) % 256
        bitOffset == bitIndex % 8
    IN  And8(Shr(grid[byteIndex], bitOffset), 3)

\* The third listing of the test code: the same addressing, with a branch for a
\* cell that would straddle two bytes.
setCellState_tc3(grid, x, y, state) ==
    LET index == (y * GRID_SIZE + x) % 65536
        bitIndex == (index * 2) % 65536
        byteIndex == bitIndex \div 8
        bitOffset == bitIndex % 8
        mask == Shl8(3, bitOffset)
        first == [grid EXCEPT ![byteIndex] =
                    Or8(And8(@, Not8(mask)), Shl8(And8(state, 3), bitOffset))]
    IN  IF bitOffset > 6
        THEN LET nextOffset == (bitOffset + 2) % 8
                 nextMask == Shr(3, 6 - nextOffset)
             IN  [first EXCEPT ![byteIndex + 1] =
                    Or8(And8(@, Not8(nextMask)), Shr(And8(state, 3), 8 - nextOffset))]
        ELSE first

getCellState_tc3(grid, x, y) ==
    LET index == (y * GRID_SIZE + x) % 65536
        bitIndex == (index * 2) % 65536
        byteIndex == bitIndex \div 8
        bitOffset == bitIndex % 8
        state == And8(Shr(grid[byteIndex], bitOffset), 3)
    IN  IF bitOffset > 6
        THEN LET nextOffset == (bitOffset + 2) % 8
                 nextBits == And8(grid[byteIndex + 1], Shr(3, 6 - nextOffset))
             IN  Or8(state, Shl8(nextBits, 8 - nextOffset))
        ELSE state

\* setCellState and getCellState of the running sketch.
setCellState(grid, x, y, state) ==
    CASE sketch = "part_000" -> setCellState_000(grid, x, y, state)
      [] sketch = "test_code/2" -> setCellState_tc2(grid, x, y, state)
      [] sketch = "test_code/3" -> setCellState_tc3(grid, x, y, state)

getCellState(grid, x, y) ==
    CASE sketch = "part_000" -> getCellState_000(grid, x, y)
      [] sketch = "test_code/2" -> getCellState_tc2(grid, x, y)
      [] sketch = "test_code/3" -> getCellState_tc3(grid, x, y)

(***************************************************************************)
(* Calls of setCellState on one grid array, by each of the packed          *)
(* implementations, from arrays filled with a byte of any four cell        *)
(* states.  ev is the last call, ev.n the number of calls so far.          *)
(***************************************************************************)
PackedSketches == {"part_000", "test_code/2", "test_code/3"}

\* Bytes whose four cells are all alike, and bytes holding each state once.
FillBytes == {0, 85, 170, 255, 27, 228}

InitPacked ==
    /\ sketch \in PackedSketches
    /\ GRID_SIZE = PackedGridSize
    /\ ships = <<>>
    /\ env = NoButtons
    /\ gameState = "WAITING_TO_START"
    /\ \E b \in FillBytes : playerGrid = [i \in 0 .. (gridBytes - 1) |-> b]
    /\ arduinoGrid = <<>>
    /\ playerAttackGrid = <<>>
    /\ arduinoAttackGrid = <<>>
    /\ cursorX = 0
    /\ cursorY = 0
    /\ redButtonState = "HIGH"
    /\ lastRedButtonState = "HIGH"
    /\ lastBlueButtonState = "HIGH"
    /\ blueButtonLongPressHandled = FALSE
    /\ blueButtonShortPress = FALSE
    /\ playerShipHorizontal = TRUE
    /\ arduinoAttackMode = "HUNT_MODE"
    /\ lastHitX = 0
    /\ lastHitY = 0
    /\ targetIndex = 0
    /\ targetList = [i \in 0 .. 3 |-> <<0, 0>>]
    /\ targetListInitialized = FALSE
    /\ shipId = 0
    /\ ev = [act |-> "none", x |-> 0, y |-> 0, state |-> 0, n |-> 0]

\* The variables a call on playerGrid leaves alone.
others == <<sketch, GRID_SIZE, ships, env, gameState, arduinoGrid, playerAttackGrid,
            arduinoAttackGrid, cursorX, cursorY, redButtonState, lastRedButtonState,
            lastBlueButtonState, blueButtonLongPressHandled, blueButtonShortPress,
            playerShipHorizontal, arduinoAttackMode, lastHitX, lastHitY, targetIndex,
            targetList, targetListInitialized, shipId>>

writeCell ==
    /\ ev.n < PackedWrites
    /\ \E x \in Coord : \E y \in Coord : \E state \in 0 .. 3 :
          /\ playerGrid' = setCellState(playerGrid, x, y, state)
          /\ ev' = [act |-> "set", x |-> x, y |-> y, state |-> state, n |-> ev.n + 1]
    /\ UNCHANGED others

SpecPacked == InitPacked /\ [][writeCell]_vars

\* C10: for each packed implementation, a grid g, a cell (x, y) of the grid and
\* a state s in 0 .. 3: after setCellState(g, x, y, s), getCellState at (x, y)
\* returns s and getCellState at every other cell returns what it did before.
C10_PackedRoundTrip ==
    [][ev'.act = "set" =>
        \A c \in Cells :
            getCellState(playerGrid', c[1], c[2]) =
                IF c = <<ev'.x, ev'.y>> THEN ev'.state
                ELSE getCellState(playerGrid, c[1], c[2])]_vars

\* The cell that shares its byte with three others and borders the next byte
\* has just been written over a different state, its neighbours on both sides
\* holding yet other states.
C10_Witness ==
    /\ ev.act = "set"
    /\ ev.x = 0 /\ ev.y = 1
    /\ ev.state = 1
    /\ ev.n = 2
    /\ getCellState(playerGrid, 0, 1) = 1
    /\ getCellState(playerGrid, 2, 0) = 2
    /\ getCellState(playerGrid, 1, 1) = 3

(***************************************************************************)
(* The placement validator that checks the footprint only: canPlaceShip of *)
(* part_001 on an int8_t grid and of the test code on a packed grid.       *)
(***************************************************************************)
\* canPlaceShip of the test code, one pass of a for loop from index i on.
RECURSIVE canPlaceScan_tc(_, _, _, _, _, _, _)
canPlaceScan_tc(grid, x, y, size, horizontal, i, reads) ==
    IF i >= size
    THEN [result |-> TRUE, reads |-> reads]
    ELSE LET c == IF horizontal THEN <<x + i, y>> ELSE <<x, y + i>>
         IN  IF getCellState(grid, c[1], c[2]) # CELL_EMPTY
             THEN [result |-> FALSE, reads |-> reads \cup {c}]
             ELSE canPlaceScan_tc(grid, x, y, size, horizontal, i + 1, reads \cup {c})

\* canPlaceShip of the test code with the cells it passes to getCellState.
canPlaceRun_tc(grid, x, y, size, horizontal) ==
    IF horizontal
    THEN IF x + size > GRID_SIZE
         THEN [result |-> FALSE, reads |-> {}]
         ELSE canPlaceScan_tc(grid, x, y, size, horizontal, 0, {})
    ELSE IF y + size > GRID_SIZE
         THEN [result |-> FALSE, reads |-> {}]
         ELSE canPlaceScan_tc(grid, x, y, size, horizontal, 0, {})

canPlaceShip_tc(grid, x, y, size, horizontal) ==
    canPlaceRun_tc(grid, x, y, size, horizontal).result

\* placeShip of the test code: setCellState(CELL_SHIP) for i = 0 .. size - 1.
RECURSIVE placeShip_tc(_, _, _, _, _)
placeShip_tc(grid, x, y, size, horizontal) ==
    IF size = 0
    THEN grid
    ELSE LET rest == placeShip_tc(grid, x, y, size - 1, horizontal)
         IN  IF horizontal
             THEN setCellState(rest, x + (size - 1), y, CELL_SHIP)
             ELSE setCellState(rest, x, y + (size - 1), CELL_SHIP)

(***************************************************************************)
(* Calls of the validator, each followed by placeShip when it accepts, as  *)
(* in placeArduinoShips and playerPlaceShips, from grids with up to        *)
(* ValidatorMarks cells taken.  ev is the last call, ev.n their number.    *)
(***************************************************************************)
ValidatorSketches == {"part_001", "test_code/2"}

\* The int8_t grids with the cells of M set to the values m gives them.
MarkedGrid(n, M, m) ==
    [x \in 0 .. (n - 1) |-> [y \in 0 .. (n - 1) |->
        IF <<x, y>> \in M THEN m[<<x, y>>] ELSE EMPTY]]

\* The packed array holding state m[c] at the cells c of M and CELL_EMPTY elsewhere.
PackedMarkedGrid(n, len, M, m) ==
    [b \in 0 .. (len - 1) |->
        LET f[j \in 0 .. 4] ==
                IF j = 4 THEN 0
                ELSE LET index == 4 * b + j
                         c == <<index % n, index \div n>>
                     IN  (IF c \in M THEN m[c] * (4 ^ j) ELSE 0) + f[j + 1]
        IN  f[0]]

InitValidator ==
    /\ sketch \in ValidatorSketches
    /\ GRID_SIZE = ValidatorGridSize
    /\ ships = ValidatorShips
    /\ env = NoButtons
    /\ gameState = "PLACING_SHIPS"
    /\ \E M \in SUBSET ((0 .. (ValidatorGridSize - 1)) \X (0 .. (ValidatorGridSize - 1))) :
          /\ Cardinality(M) <= ValidatorMarks
          /\ IF sketch = "part_001"
             THEN \E m \in [M -> {SHIP_PRESENT, SHIP_HIT}] :
                     playerGrid = MarkedGrid(ValidatorGridSize, M, m)
             ELSE \E m \in [M -> {CELL_SHIP, CELL_HIT, CELL_MISS}] :
                     playerGrid = PackedMarkedGrid(ValidatorGridSize,
                                    (ValidatorGridSize * ValidatorGridSize * 2 + 7) \div 8, M, m)
    /\ arduinoGrid = <<>>
    /\ playerAttackGrid = <<>>
    /\ arduinoAttackGrid = <<>>
    /\ cursorX = 0
    /\ cursorY = 0
    /\ redButtonState = "HIGH"
    /\ lastRedButtonState = "HIGH"
    /\ lastBlueButtonState = "HIGH"
    /\ blueButtonLongPressHandled = FALSE
    /\ blueButtonShortPress = FALSE
    /\ playerShipHorizontal = TRUE
    /\ arduinoAttackMode = "HUNT_MODE"
    /\ lastHitX = 0
    /\ lastHitY = 0
    /\ targetIndex = 0
    /\ targetList = [i \in 0 .. 3 |-> <<0, 0>>]
    /\ targetListInitialized = FALSE
    /\ shipId = 0
    /\ ev = [act |-> "none", x |-> 0, y |-> 0, size |-> 0, horizontal |-> TRUE,
             reads |-> {}, n |-> 0]

tryPlace ==
    /\ ev.n < ValidatorCalls
    /\ \E x \in Coord : \E y \in Coord : \E i \in 1 .. NUM_SHIPS : \E horizontal \in BOOLEAN :
          LET size == ships[i]
              run == IF sketch = "part_001"
                     THEN canPlaceRun_001(playerGrid, x, y, size, horizontal)
                     ELSE canPlaceRun_tc(playerGrid, x, y, size, horizontal)
          IN  /\ playerGrid' =
                    IF ~run.result THEN playerGrid
                    ELSE IF sketch = "part_001"
                         THEN placeShip_001(playerGrid, x, y, size, horizontal, i)
                         ELSE placeShip_tc(playerGrid, x, y, size, horizontal)
              /\ ev' = [act |-> IF run.result THEN "accepted" ELSE "refused",
                        x |-> x, y |-> y, size |-> size, horizontal |-> horizontal,
                        reads |-> run.reads, n |-> ev.n + 1]
    /\ UNCHANGED others

SpecValidator == InitValidator /\ [][tryPlace]_vars

(***************************************************************************)
(* The two fleets of a game of battle_ship_serial_monitor.ino: the state   *)
(* resetGame leaves, with any fleet placeArduinoShips can draw, and then   *)
(* the player's ships, each confirmed wherever canPlaceShip accepts it.    *)
(***************************************************************************)
InitLayout ==
    /\ sketch = "serial_monitor"
    /\ GRID_SIZE = LayoutGridSize
    /\ ships = LayoutShips
    /\ env = NoButtons
    /\ gameState = "PLACING_SHIPS"
    /\ arduinoGrid \in placeArduinoShips
    /\ playerGrid = FilledGrid(EMPTY)
    /\ playerAttackGrid = FilledGrid(ATTACK_UNTRIED)
    /\ arduinoAttackGrid = FilledGrid(ATTACK_UNTRIED)
    /\ cursorX = 0
    /\ cursorY = 0
    /\ redButtonState = "HIGH"
    /\ lastRedButtonState = "HIGH"
    /\ lastBlueButtonState = "HIGH"
    /\ blueButtonLongPressHandled = FALSE
    /\ blueButtonShortPress = FALSE
    /\ playerShipHorizontal = TRUE
    /\ arduinoAttackMode = "HUNT_MODE"
    /\ lastHitX = 0
    /\ lastHitY = 0
    /\ targetIndex = 0
    /\ targetList = [i \in 0 .. 3 |-> <<0, 0>>]
    /\ targetListInitialized = FALSE
    /\ shipId = 0
    /\ ev = [NoEvent("WAITING_TO_START") EXCEPT !.reset = "short"]

\* The accepted branch of playerPlaceShips, with the cursor and the orientation
\* the player has brought the ship to.
placeAnywhere ==
    /\ gameState = "PLACING_SHIPS"
    /\ shipId < NUM_SHIPS
    /\ \E x \in Coord : \E y \in Coord : \E horizontal \in BOOLEAN :
          LET s == [St EXCEPT !.cursorX = x, !.cursorY = y,
                              !.playerShipHorizontal = horizontal,
                              !.ev = NoEvent(gameState)]
          IN  /\ canPlaceShip(s.playerGrid, x, y, ships[s.shipId + 1], horizontal)
              /\ Becomes(acceptPlacement(s))

SpecLayout == InitLayout /\ [][placeAnywhere]_vars

(***************************************************************************)
(* The footprint-only validator.                                           *)
(***************************************************************************)
\* The cells a ship of the given size anchored at (x, y) covers, on or off the grid.
Footprint(x, y, size, horizontal) ==
    {IF horizontal THEN <<x + i, y>> ELSE <<x, y + i>> : i \in 0 .. (size - 1)}

\* What the grid of the running sketch holds at cell c: the array element, or
\* the two bits of cell number y * GRID_SIZE + x.
CellAt(grid, c) ==
    IF sketch = "part_001"
    THEN grid[c[1]][c[2]]
    ELSE LET index == c[2] * GRID_SIZE + c[1]
         IN  (grid[index \div 4] \div (4 ^ (index % 4))) % 4

\* C6: for every grid, anchor on the grid, size >= 1 and orientation, the
\* validator accepts exactly when every cell of the footprint is on the grid
\* and empty, and it reads no cell outside the grid; an accepted ship is then
\* written on the footprint and nowhere else.
C6_FootprintValidator ==
    [][ev'.act \in {"accepted", "refused"} =>
        LET fp == Footprint(ev'.x, ev'.y, ev'.size, ev'.horizontal)
        IN  /\ (ev'.act = "accepted") <=>
                    (fp \subseteq Cells /\ \A c \in fp : CellAt(playerGrid, c) = 0)
            /\ ev'.reads \subseteq Cells
            /\ ev'.reads \subseteq fp
            /\ \A c \in Cells :
                    CellAt(playerGrid', c) =
                        IF ev'.act = "accepted" /\ c \in fp THEN 1 ELSE CellAt(playerGrid, c)]_vars

\* The second call has just refused a two-cell ship that fits the grid: the
\* scan read both cells of its footprint and found the second one occupied.
C6_Witness ==
    /\ ev.act = "refused"
    /\ ev.n = 2
    /\ ev.size = 2
    /\ Footprint(ev.x, ev.y, ev.size, ev.horizontal) \subseteq Cells
    /\ Cardinality(ev.reads) = 2

(***************************************************************************)
(* Games of part_001.                                                      *)
(***************************************************************************)
FleetCells(grid) == {c \in Cells : grid[c[1]][c[2]] # EMPTY}

RECURSIVE RosterCellsFrom(_)
RosterCellsFrom(i) == IF i > NUM_SHIPS THEN 0 ELSE ships[i] + RosterCellsFrom(i + 1)

\* C9 as stated, for part_001: in every game, the second and later ones
\* included, the battle is reached only after all NUM_SHIPS ships were placed in
\* that game, so playerGrid holds the whole fleet whenever an attack can be made.
C9_PlacedInEveryGame ==
    gameState \in {"PLAYER_TURN", "ARDUINO_TURN"} =>
        Cardinality(FleetCells(playerGrid)) = RosterCellsFrom(1)

(***************************************************************************)
(* Placement in battle_ship_serial_monitor.ino.                            *)
(***************************************************************************)
Neighbours(c) ==
    {d \in Cells : d[1] - c[1] \in -1 .. 1 /\ d[2] - c[2] \in -1 .. 1}

\* The strict placement rule: the footprint lies on the grid, and it and the
\* cells around it are empty.
StrictlyValid(grid, x, y, size, horizontal) ==
    /\ Footprint(x, y, size, horizontal) \subseteq Cells
    /\ \A c \in Footprint(x, y, size, horizontal) :
            \A d \in Neighbours(c) : grid[d[1]][d[2]] = EMPTY

\* C5: a confirmation is refused exactly when the placement is invalid (the
\* footprint leaves the grid, or it or a cell around it is taken); a refused
\* confirmation leaves playerGrid, shipId and the phase as they were and the
\* orientation as the blue button of the same tick set it, so the same ship is
\* offered again.
C5_RejectedPlacement ==
    [][/\ ev'.act = "rejected" =>
            /\ ev'.pre = "PLACING_SHIPS" /\ ev'.reset = "none"
            /\ ~StrictlyValid(playerGrid, cursorX', cursorY', ships[shipId + 1],
                              playerShipHorizontal')
            /\ playerGrid' = playerGrid
            /\ shipId' = shipId
            /\ playerShipHorizontal' = IF ev'.toggle THEN ~playerShipHorizontal
                                       ELSE playerShipHorizontal
            /\ gameState' = "PLACING_SHIPS"
            /\ shipId' < NUM_SHIPS
       /\ ev'.act = "placed" =>
            StrictlyValid(playerGrid, cursorX', cursorY', ships[shipId + 1],
                          playerShipHorizontal')]_vars

\* The second ship has just been refused on an empty cell of the grid: it
\* would touch the first one.
C5_Witness ==
    /\ ev.act = "rejected"
    /\ shipId = 1
    /\ playerGrid[cursorX][cursorY] = EMPTY
    /\ gameState = "PLACING_SHIPS"

\* No two cells of different ships touch, diagonals included.
Separated(grid) ==
    \A c \in Cells : \A d \in Neighbours(c) :
        (grid[c[1]][c[2]] > 0 /\ grid[d[1]][d[2]] > 0) => grid[c[1]][c[2]] = grid[d[1]][d[2]]

ShipCells(grid, id) == {c \in Cells : grid[c[1]][c[2]] = id}

\* S is n contiguous cells of one row or one column.
IsRun(S, n) ==
    \E x \in Coord : \E y \in Coord : \E horizontal \in BOOLEAN :
        /\ S = Footprint(x, y, n, horizontal)
        /\ S \subseteq Cells

\* The grid holds the first k ships of the roster, each once, and nothing else.
RosterPlaced(grid, k) ==
    /\ \A id \in 1 .. k : IsRun(ShipCells(grid, id), ships[id])
    /\ \A c \in Cells : grid[c[1]][c[2]] \in 0 .. k

\* C7: on arduinoGrid after placeArduinoShips and on playerGrid after each
\* accepted placement, no two cells of different ships are the same cell or
\* neighbours in any of the eight directions, and every placed ship keeps all
\* its cells.
C7_StrictAdjacency ==
    /\ Separated(arduinoGrid)
    /\ RosterPlaced(arduinoGrid, NUM_SHIPS)
    /\ Separated(playerGrid)
    /\ RosterPlaced(playerGrid, shipId)

\* Both fleets are complete, and the player's two ships lie as close as the rule
\* allows: one free cell between them.
C7_Witness ==
    /\ shipId = NUM_SHIPS
    /\ ev.act = "placed"
    /\ countRemainingShips(arduinoGrid) = NUM_SHIPS
    /\ playerGrid[0][0] = 1 /\ playerGrid[1][0] = 1 /\ playerGrid[2][2] = 2

\* C8: the phase goes from PLACING_SHIPS to PLAYER_TURN only with shipId =
\* NUM_SHIPS, playerGrid holding every ship of the roster once, ship i as
\* ships[i].length contiguous cells of a row or column with id i + 1, and
\* countRemainingShips(playerGrid) = NUM_SHIPS; while k ships are placed the
\* grid holds the first k and the count is k.
C8_PlacementComplete ==
    [][/\ (gameState = "PLACING_SHIPS" /\ gameState' = "PLAYER_TURN") =>
            /\ shipId = NUM_SHIPS
            /\ playerGrid' = playerGrid
            /\ RosterPlaced(playerGrid', NUM_SHIPS)
            /\ countRemainingShips(playerGrid') = NUM_SHIPS
       /\ gameState' = "PLACING_SHIPS" =>
            /\ shipId' \in 0 .. NUM_SHIPS
            /\ RosterPlaced(playerGrid', shipId')
            /\ countRemainingShips(playerGrid') = shipId']_vars

\* The battle has just started with the two-cell ship upright in a corner.
C8_Witness ==
    /\ gameState = "PLAYER_TURN"
    /\ ev.act = "allPlaced"
    /\ playerGrid[0][0] = 1 /\ playerGrid[0][1] = 1
    /\ shipId = NUM_SHIPS

(***************************************************************************)
(* Attacks of battle_ship_serial_monitor.ino.                              *)
(***************************************************************************)
UnhitShipCells(grid) == {c \in Cells : grid[c[1]][c[2]] > 0}

ChangedCells(g, h) == {c \in Cells : g[c[1]][c[2]] # h[c[1]][c[2]]}

PlayerResolved(e) == e.act \in {"playerHit", "playerMiss"}

ArduinoResolved(e) == e.act \in {"arduinoHit", "arduinoMiss"}

\* C2: after every resolved player attack the phase is GAME_OVER exactly when
\* arduinoGrid has no un-hit ship cell left (the attack hit the last one), and
\* ARDUINO_TURN otherwise; the same for an Arduino attack with playerGrid and
\* PLAYER_TURN.
C2_WinDetection ==
    [][/\ PlayerResolved(ev') =>
            /\ gameState' = IF UnhitShipCells(arduinoGrid') = {}
                            THEN "GAME_OVER" ELSE "ARDUINO_TURN"
            /\ gameState' = "GAME_OVER" <=>
                    UnhitShipCells(arduinoGrid) = {<<ev'.x, ev'.y>>}
       /\ ArduinoResolved(ev') =>
            /\ gameState' = IF UnhitShipCells(playerGrid') = {}
                            THEN "GAME_OVER" ELSE "PLAYER_TURN"
            /\ gameState' = "GAME_OVER" <=>
                    UnhitShipCells(playerGrid) = {<<ev'.x, ev'.y>>}]_vars

\* The player has just hit the last un-hit cell of a two-cell ship.
C2_Witness ==
    /\ ev.act = "playerHit"
    /\ gameState = "GAME_OVER"
    /\ Cardinality({c \in Cells : arduinoGrid[c[1]][c[2]] = SHIP_HIT}) = 2

\* One attack at cell (x, y), with attack grid a -> a2 and ownership grid o -> o2.
AttackResolvedAs(a, a2, o, o2, x, y) ==
    /\ a[x][y] = ATTACK_UNTRIED
    /\ ChangedCells(a, a2) = {<<x, y>>}
    /\ IF o[x][y] > 0
       THEN /\ a2[x][y] = ATTACK_HIT
            /\ ChangedCells(o, o2) = {<<x, y>>}
            /\ o2[x][y] = SHIP_HIT
       ELSE /\ a2[x][y] = ATTACK_MISS
            /\ o2 = o

\* C3: an attack on an untried cell is a HIT exactly when the defender's grid
\* holds an un-hit ship there; a HIT changes that one cell of the attacker's
\* attack grid and of the defender's ownership grid, a MISS that one cell of
\* the attack grid only; nothing else in the four grids changes.
C3_AttackResolution ==
    [][/\ PlayerResolved(ev') =>
            /\ AttackResolvedAs(playerAttackGrid, playerAttackGrid',
                                arduinoGrid, arduinoGrid', ev'.x, ev'.y)
            /\ (ev'.act = "playerHit") <=> (arduinoGrid[ev'.x][ev'.y] > 0)
            /\ UNCHANGED <<playerGrid, arduinoAttackGrid>>
       /\ ArduinoResolved(ev') =>
            /\ AttackResolvedAs(arduinoAttackGrid, arduinoAttackGrid',
                                playerGrid, playerGrid', ev'.x, ev'.y)
            /\ (ev'.act = "arduinoHit") <=> (playerGrid[ev'.x][ev'.y] > 0)
            /\ UNCHANGED <<arduinoGrid, playerAttackGrid>>]_vars

\* Both sides have resolved attacks of both kinds: the Arduino has just missed
\* after the player has hit and missed.
C3_Witness ==
    /\ ev.act = "arduinoMiss"
    /\ \E c \in Cells : playerAttackGrid[c[1]][c[2]] = ATTACK_HIT
    /\ \E c \in Cells : playerAttackGrid[c[1]][c[2]] = ATTACK_MISS
    /\ \E c \in Cells : arduinoAttackGrid[c[1]][c[2]] = ATTACK_HIT

aiState == <<arduinoAttackMode, lastHitX, lastHitY, targetIndex, targetList,
             targetListInitialized>>

\* C4: a tick of the player's turn whose cursor rests on a cell that is not
\* UNTRIED changes none of the four grids and nothing of the Arduino's attack
\* state, and leaves the phase PLAYER_TURN, whether or not the red button
\* confirms; a confirmation there is answered as a duplicate.
C4_DuplicateAttack ==
    [][/\ (/\ gameState = "PLAYER_TURN"
           /\ ev'.reset = "none"
           /\ playerAttackGrid[cursorX'][cursorY'] # ATTACK_UNTRIED)
          => /\ UNCHANGED <<playerGrid, arduinoGrid, playerAttackGrid, arduinoAttackGrid>>
             /\ UNCHANGED aiState
             /\ gameState' = "PLAYER_TURN"
             /\ ~PlayerResolved(ev')
       /\ ev'.act = "alreadyTried"
          => /\ gameState = "PLAYER_TURN"
             /\ <<ev'.x, ev'.y>> = <<cursorX', cursorY'>>
             /\ playerAttackGrid[cursorX'][cursorY'] # ATTACK_UNTRIED]_vars

\* The player has just confirmed an attack on a cell that was hit before.
C4_Witness ==
    /\ ev.act = "alreadyTried"
    /\ playerAttackGrid[ev.x][ev.y] = ATTACK_HIT
    /\ gameState = "PLAYER_TURN"

(***************************************************************************)
(* The Arduino's turns of one battle of battle_ship_serial_monitor.ino.    *)
(* A step is one call of arduinoAttack() by loop().  Between two calls the *)
(* player's turn runs playerAttack, which writes playerAttackGrid,         *)
(* arduinoGrid, the cursor and the red-button variables and sets the phase *)
(* back to ARDUINO_TURN; arduinoAttack chooses and resolves its cell       *)
(* from none of those, and they are left as the first player attack left   *)
(* them.                                                                   *)
(***************************************************************************)
AIGridSize == 3
AIShips == <<3>>

\* The program is in state s.
Holds(s) ==
    /\ gameState = s.gameState
    /\ playerGrid = s.playerGrid
    /\ arduinoGrid = s.arduinoGrid
    /\ playerAttackGrid = s.playerAttackGrid
    /\ arduinoAttackGrid = s.arduinoAttackGrid
    /\ cursorX = s.cursorX
    /\ cursorY = s.cursorY
    /\ redButtonState = s.redButtonState
    /\ lastRedButtonState = s.lastRedButtonState
    /\ lastBlueButtonState = s.lastBlueButtonState
    /\ blueButtonLongPressHandled = s.blueButtonLongPressHandled
    /\ blueButtonShortPress = s.blueButtonShortPress
    /\ playerShipHorizontal = s.playerShipHorizontal
    /\ arduinoAttackMode = s.arduinoAttackMode
    /\ lastHitX = s.lastHitX
    /\ lastHitY = s.lastHitY
    /\ targetIndex = s.targetIndex
    /\ targetList = s.targetList
    /\ targetListInitialized = s.targetListInitialized
    /\ shipId = s.shipId
    /\ ev = s.ev

\* The state in which loop() first calls arduinoAttack: the player has placed
\* the roster, p being the last placement, and has then confirmed an attack at
\* the cell the cursor was left on.
firstArduinoTurn(layout, p) ==
    LET s0 == [gameState |-> "PLAYER_TURN", playerGrid |-> p.grid, arduinoGrid |-> layout,
               playerAttackGrid |-> FilledGrid(ATTACK_UNTRIED),
               arduinoAttackGrid |-> FilledGrid(ATTACK_UNTRIED),
               cursorX |-> p.x, cursorY |-> p.y, redButtonState |-> "HIGH",
               lastRedButtonState |-> "LOW", lastBlueButtonState |-> "HIGH",
               blueButtonLongPressHandled |-> FALSE, blueButtonShortPress |-> FALSE,
               playerShipHorizontal |-> p.horizontal, arduinoAttackMode |-> "HUNT_MODE",
               lastHitX |-> 0, lastHitY |-> 0, targetIndex |-> 0,
               targetList |-> [i \in 0 .. 3 |-> <<0, 0>>],
               targetListInitialized |-> FALSE, shipId |-> NUM_SHIPS,
               ev |-> NoEvent("PLAYER_TURN")]
    IN  playerAttack(s0, [red |-> "LOW", redElapsed |-> TRUE, joyReady |-> FALSE,
                          xDir |-> 0, yDir |-> 0])

InitAI ==
    /\ sketch = "serial_monitor"
    /\ GRID_SIZE = AIGridSize
    /\ ships = AIShips
    /\ env = NoButtons
    /\ \E p \in playerPlacementsFrom([grid |-> FilledGrid(EMPTY), x |-> 0, y |-> 0,
                                       horizontal |-> TRUE], 0) :
            Holds(firstArduinoTurn(CHOOSE g \in placeArduinoShips : TRUE, p))

\* The sampling loop of hunt mode, run on the pairs (x, y) that random() returns
\* in turn: the cell at which validAttack becomes true, as a one-element
\* sequence, or <<>> while the loop is still running when the draws end.
HuntDraws == 2

huntSample_FirstDraw(grid, draws) ==
    IF draws = <<>> THEN <<>> ELSE <<Head(draws)>>

RECURSIVE huntSample(_, _)
huntSample(grid, draws) ==
    IF draws = <<>>
    THEN <<>>
    ELSE LET x == Head(draws)[1]
             y == Head(draws)[2]
         IN  IF grid[x][y] = ATTACK_UNTRIED
             THEN <<(<<x, y>>)>>
             ELSE huntSample(grid, Tail(draws))

\* The cells the sampling loop can end with within HuntDraws iterations.
huntCells(grid) ==
    {huntSample(grid, d)[1] :
        d \in {e \in UNION {[1 .. n -> Cells] : n \in 1 .. HuntDraws} :
                  huntSample(grid, e) # <<>>}}

\* The next call of arduinoAttack() by loop(); h is the cell its sampling loop
\* ends with, when it gets there.
arduinoTurn ==
    /\ gameState \in {"ARDUINO_TURN", "PLAYER_TURN"}
    /\ LET s == [St EXCEPT !.gameState = "ARDUINO_TURN", !.ev = NoEvent("ARDUINO_TURN")]
       IN  \E h \in (IF reachesHunt(s) THEN huntCells(s.arduinoAttackGrid)
                     ELSE {<<0, 0>>}) :
              Becomes(handleGameState(s, [red |-> "HIGH", redElapsed |-> FALSE,
                                          joyReady |-> FALSE, xDir |-> 0, yDir |-> 0], h))

SpecAI == InitAI /\ [][arduinoTurn]_vars

\* C11: every call of arduinoAttack by loop() in phase ARDUINO_TURN, through the
\* hunt branch, the target branch or the fallback from an exhausted target list
\* to hunt mode, changes exactly one cell of arduinoAttackGrid, from untried to
\* HIT or MISS, and leaves the phase at PLAYER_TURN or GAME_OVER.
C11_OneAttackPerTurn ==
    [][(ev'.pre = "ARDUINO_TURN" /\ ev'.reset = "none") =>
        /\ ev'.via \in {"hunt", "target", "fallback"}
        /\ ArduinoResolved(ev')
        /\ ChangedCells(arduinoAttackGrid, arduinoAttackGrid') = {<<ev'.x, ev'.y>>}
        /\ arduinoAttackGrid[ev'.x][ev'.y] = ATTACK_UNTRIED
        /\ arduinoAttackGrid'[ev'.x][ev'.y] \in {ATTACK_HIT, ATTACK_MISS}
        /\ gameState' \in {"PLAYER_TURN", "GAME_OVER"}]_vars

\* The target list ran out in this call, and the hunt attack made in its place
\* missed and handed the turn to the player.
C11_Witness ==
    /\ ev.pre = "ARDUINO_TURN"
    /\ ev.via = "fallback"
    /\ ev.act = "arduinoMiss"
    /\ arduinoAttackMode = "HUNT_MODE"
    /\ gameState = "PLAYER_TURN"

\* Left, right, up, down of (x, y), as indexed by targetList.
FourNeighbours(x, y) ==
    [i \in 0 .. 3 |-> CASE i = 0 -> <<x - 1, y>>
                        [] i = 1 -> <<x + 1, y>>
                        [] i = 2 -> <<x, y - 1>>
                        [] i = 3 -> <<x, y + 1>>]

\* The entries of list from index from on whose cell is untried on grid.
UntriedEntries(list, from, grid) ==
    {i \in from .. 3 : grid[list[i][1]][list[i][2]] = ATTACK_UNTRIED}

\* C12: the first Arduino turn after a hit at a cell with all four neighbours on
\* the grid builds the target list [left, right, up, down] of that cell; and a
\* turn in target mode attacks the first entry of the list, from targetIndex
\* on, whose cell is still untried on arduinoAttackGrid, whenever there is one.
C12_TargetOrder ==
    [][(ev'.pre = "ARDUINO_TURN" /\ ev'.reset = "none" /\ arduinoAttackMode = "TARGET_MODE") =>
        LET from == IF targetListInitialized THEN targetIndex ELSE 0
            untried == UntriedEntries(targetList', from, arduinoAttackGrid)
        IN  /\ (/\ ~targetListInitialized
                /\ lastHitX > 0 /\ lastHitX < GRID_SIZE - 1
                /\ lastHitY > 0 /\ lastHitY < GRID_SIZE - 1)
                    => targetList' = FourNeighbours(lastHitX, lastHitY)
            /\ targetListInitialized => targetList' = targetList
            /\ (untried # {}) <=> (ev'.via = "target")
            /\ ev'.via = "target" =>
                    \E i \in untried :
                        /\ \A j \in untried : i <= j
                        /\ <<ev'.x, ev'.y>> = targetList'[i]]_vars

\* After a hit at the centre cell (1, 1) the list was built and consumed in its
\* order: left and right were attacked and missed, and the third entry, up, has
\* just been attacked and hit.
C12_Witness ==
    /\ ev.via = "target"
    /\ ev.act = "arduinoHit"
    /\ <<ev.x, ev.y>> = <<1, 0>>
    /\ targetList = FourNeighbours(1, 1)
    /\ arduinoAttackGrid[0][1] = ATTACK_MISS
    /\ arduinoAttackGrid[2][1] = ATTACK_MISS
    /\ arduinoAttackGrid[1][2] = ATTACK_UNTRIED

Abs(n) == IF n < 0 THEN -n ELSE n

\* C13: every cell arduinoAttack attacks in target mode, without falling back to
\* hunt mode, is a cell of the grid at Manhattan distance 1 from
\* (lastHitX, lastHitY), wherever the last hit lies and whatever lists were
\* built before.
C13_TargetsAreNeighbours ==
    [][(ev'.pre = "ARDUINO_TURN" /\ ev'.via = "target") =>
        /\ <<ev'.x, ev'.y>> \in Cells
        /\ Abs(ev'.x - lastHitX) + Abs(ev'.y - lastHitY) = 1]_vars

\* C14: every cell arduinoAttack attacks out of its hunt-mode sampling loop was
\* untried on arduinoAttackGrid before the attack; with one untried cell left,
\* that cell is the one attacked.
C14_HuntUntriedOnly ==
    [][(ev'.pre = "ARDUINO_TURN" /\ ev'.via \in {"hunt", "fallback"}) =>
        /\ arduinoAttackGrid[ev'.x][ev'.y] = ATTACK_UNTRIED
        /\ Cardinality(untriedCells(arduinoAttackGrid)) = 1
                => untriedCells(arduinoAttackGrid) = {<<ev'.x, ev'.y>>}]_vars

\* The sampling loop has just found the last untried cell of the grid, in hunt
\* mode.
C14_Witness ==
    /\ ev.pre = "ARDUINO_TURN"
    /\ ev.via = "hunt"
    /\ untriedCells(arduinoAttackGrid) = {}
    /\ arduinoAttackGrid[ev.x][ev.y] = ATTACK_HIT

\* The cells from c to d of one row or column, both included.
Between(c, d) ==
    {e \in Cells :
        \/ e[1] = c[1] /\ c[1] = d[1]
              /\ ((c[2] <= e[2] /\ e[2] <= d[2]) \/ (d[2] <= e[2] /\ e[2] <= c[2]))
        \/ e[2] = c[2] /\ c[2] = d[2]
              /\ ((c[1] <= e[1] /\ e[1] <= d[1]) \/ (d[1] <= e[1] /\ e[1] <= c[1]))}

\* Some ship of grid has a cell that was hit and a cell that was not: the two
\* are joined by ship cells of one row or column.
PartlyHit(grid) ==
    \E c \in Cells : \E d \in Cells :
        /\ grid[c[1]][c[2]] = SHIP_HIT
        /\ grid[d[1]][d[2]] > 0
        /\ (c[1] = d[1] \/ c[2] = d[2])
        /\ \A e \in Between(c, d) : grid[e[1]][e[2]] # EMPTY

\* C15: the Arduino makes no hunt-mode attack, directly or by falling back from
\* target mode, while a ship of the player that it has hit still has an un-hit
\* cell.
C15_FinishesFoundShip ==
    [][(ev'.pre = "ARDUINO_TURN" /\ ev'.via \in {"hunt", "fallback"})
            => ~PartlyHit(playerGrid)]_vars

(***************************************************************************)
(* Resets and the idle phases of battle_ship_serial_monitor.ino.           *)
(***************************************************************************)
\* The whole program, every control in use, with the random draws of
\* placeArduinoShips the same in every reset.
ResetGridSize == 2
ResetShips == <<1>>

SameFleet == [blue |-> TRUE, long |-> TRUE, stop |-> {}, fleet |-> "first"]

InitReset == InitSketch("serial_monitor", ResetGridSize, ResetShips, SameFleet)

SpecReset == InitReset /\ [][Next]_vars

\* r is a freshly initialised game.
ResetState(r) ==
    /\ r.gameState = "PLACING_SHIPS"
    /\ r.playerGrid = FilledGrid(EMPTY)
    /\ r.playerAttackGrid = FilledGrid(ATTACK_UNTRIED)
    /\ r.arduinoAttackGrid = FilledGrid(ATTACK_UNTRIED)
    /\ RosterPlaced(r.arduinoGrid, NUM_SHIPS)
    /\ Separated(r.arduinoGrid)
    /\ r.cursorX = 0 /\ r.cursorY = 0
    /\ r.shipId = 0
    /\ r.playerShipHorizontal
    /\ r.arduinoAttackMode = "HUNT_MODE"
    /\ r.targetIndex = 0
    /\ ~r.targetListInitialized

\* C16: in a tick whose blue-button part calls resetGame, from whatever phase,
\* the state resetGame returns is a freshly initialised game: phase
\* PLACING_SHIPS, playerGrid and both attack grids empty, arduinoGrid holding
\* the whole roster legally placed and nothing else, cursor (0, 0), shipId 0,
\* horizontal orientation, hunt mode, targetIndex 0, no target list.  The rest
\* of the tick, playerPlaceShips, moves nothing of it but the cursor.
C16_FullReset ==
    [][ev'.reset # "none" =>
        \* the fleet this call of placeArduinoShips drew is the one the tick ends with
        \E r \in {resetGame(St, arduinoGrid')} :
            /\ ResetState(r)
            /\ gameState' = r.gameState
            /\ playerGrid' = r.playerGrid
            /\ playerAttackGrid' = r.playerAttackGrid
            /\ arduinoAttackGrid' = r.arduinoAttackGrid
            /\ shipId' = r.shipId
            /\ playerShipHorizontal' = r.playerShipHorizontal
            /\ arduinoAttackMode' = r.arduinoAttackMode
            /\ targetIndex' = r.targetIndex
            /\ targetListInitialized' = r.targetListInitialized
            /\ cursorX' \in {0, 1} /\ cursorY' \in {0, 1}]_vars

\* The game was reset by a long press in the Arduino's turn, after the player
\* had placed the fleet and attacked: the grids are empty again.
C16_Witness ==
    /\ ev.pre = "ARDUINO_TURN"
    /\ ev.reset = "long"
    /\ gameState = "PLACING_SHIPS"
    /\ playerGrid = FilledGrid(EMPTY)
    /\ playerAttackGrid = FilledGrid(ATTACK_UNTRIED)
    /\ cursorX = 0 /\ cursorY = 0

\* Every reading of the joystick and the red button a tick can be given.
AllGameInputs ==
    [red : Levels, redElapsed : BOOLEAN, joyReady : BOOLEAN, xDir : -1 .. 1, yDir : -1 .. 1]

\* C17: a tick that starts in WAITING_TO_START or GAME_OVER and whose
\* blue-button part does not call resetGame leaves the four grids, the cursor,
\* shipId, the orientation, the Arduino's targeting state and the phase as they
\* were; the switch of loop() does nothing in these phases, whatever the
\* joystick and the red button read.
C17_IdlePhasesInert ==
    [][(gameState \in {"WAITING_TO_START", "GAME_OVER"} /\ ev'.reset = "none") =>
        /\ UNCHANGED <<playerGrid, arduinoGrid, playerAttackGrid, arduinoAttackGrid>>
        /\ UNCHANGED <<cursorX, cursorY, shipId, playerShipHorizontal>>
        /\ UNCHANGED aiState
        /\ UNCHANGED gameState
        /\ \E s \in {St} : \A in \in AllGameInputs : handleGameState(s, in, <<0, 0>>) = s]_vars

\* A game the player has won is over, and the blue button is down in this tick:
\* the press alone resets nothing, and the game is still over.
C17_Witness ==
    /\ ev.pre = "GAME_OVER"
    /\ ev.reset = "none"
    /\ gameState = "GAME_OVER"
    /\ lastBlueButtonState = "LOW"
    /\ \E c \in Cells : playerAttackGrid[c[1]][c[2]] = ATTACK_HIT

(***************************************************************************)
(* What the player is shown of the Arduino's side.                         *)
(***************************************************************************)
\* displayAttackGrid of battle_ship_serial_monitor.ino: the rows printed, each
\* cell as the strings written for it.
displayAttackGrid_ShowsShips(s) ==
    [y \in Coord |-> [x \in Coord |->
        LET glyph == IF s.playerAttackGrid[x][y] = ATTACK_HIT THEN "H"
                     ELSE IF s.playerAttackGrid[x][y] = ATTACK_MISS THEN "M"
                     ELSE IF s.arduinoGrid[x][y] > 0 THEN "S"
                     ELSE "."
        IN  IF x = s.cursorX /\ y = s.cursorY
            THEN <<" [", glyph, "]">>
            ELSE <<" ", glyph>>]]

displayAttackGrid(s) ==
    [y \in Coord |-> [x \in Coord |->
        LET glyph == IF s.playerAttackGrid[x][y] = ATTACK_HIT THEN "H"
                     ELSE IF s.playerAttackGrid[x][y] = ATTACK_MISS THEN "M"
                     ELSE "."
        IN  IF x = s.cursorX /\ y = s.cursorY
            THEN <<" [", glyph, "]">>
            ELSE <<" ", glyph>>]]

\* The attack results as the packed sketches hold them, in CELL_ states.
attackCellState(s, x, y) ==
    IF s.playerAttackGrid[x][y] = ATTACK_HIT THEN CELL_HIT
    ELSE IF s.playerAttackGrid[x][y] = ATTACK_MISS THEN CELL_MISS
    ELSE CELL_EMPTY

\* updateAttackLEDMatrix of part_000: the colour written to the LED of each cell.
updateAttackLEDMatrix_000(s) ==
    [y \in Coord |-> [x \in Coord |->
        LET cursorColor == IF x = s.cursorX /\ y = s.cursorY /\ s.gameState = "PLAYER_TURN"
                           THEN "White" ELSE "Black"
            attackState == attackCellState(s, x, y)
        IN  IF attackState = CELL_HIT THEN "Red"
            ELSE IF attackState = CELL_MISS THEN "Blue"
            ELSE cursorColor]]

\* updateCPUMatrix of the third listing of battle_ship_test_code.ino: the else
\* branch of the cell state writes Black over the cursor colour.
updateCPUMatrix_tc3(s) ==
    [y \in Coord |-> [x \in Coord |->
        LET attackState == attackCellState(s, x, y)
        IN  IF attackState = CELL_HIT THEN "Red"
            ELSE IF attackState = CELL_MISS THEN "Blue"
            ELSE "Black"]]

\* Everything the three sketches render of the opponent.
OpponentView(s) == <<displayAttackGrid(s), updateAttackLEDMatrix_000(s), updateCPUMatrix_tc3(s)>>

\* Fleet layout agrees with the attack results in attack: it has a ship cell
\* exactly at the attacked cells that were hits.
AgreesOnAttacked(layout, attack) ==
    \A c \in Cells :
        attack[c[1]][c[2]] # ATTACK_UNTRIED =>
            ((layout[c[1]][c[2]] > 0) <=> (attack[c[1]][c[2]] = ATTACK_HIT))

\* arduinoGrid of a game played on layout after the attacks recorded in attack.
AttackedLayout(layout, attack) ==
    [x \in Coord |-> [y \in Coord |->
        IF attack[x][y] = ATTACK_HIT THEN SHIP_HIT ELSE layout[x][y]]]

\* C18: the opponent view is computed from playerAttackGrid, the cursor and the
\* phase, and two games on different Arduino fleets look the same under the same
\* inputs as long as the fleets agree on the attacked cells.  Step by step: from
\* the state of this game and from the state of a game on any other fleet that
\* agrees on the cells attacked up to and in this tick, the same tick with the
\* same inputs ends in states that differ in arduinoGrid only, with the same
\* view.
C18_OpponentViewHidesShips ==
    \E s \in {[St EXCEPT !.ev = NoEvent(gameState)]} :
    \E layouts \in {placeArduinoShips} :
        \A b \in BlueInputs(s) :
        \E s1 \in {handleBlueButton(s, b, s.arduinoGrid)} :
            \A in \in GameInputs(s1) :
            \A h \in (IF s1.gameState = "ARDUINO_TURN" /\ reachesHunt(s1)
                      THEN untriedCells(s1.arduinoAttackGrid) ELSE {<<0, 0>>}) :
            \E a \in {handleGameState(s1, in, h)} :
                \A other \in layouts :
                    AgreesOnAttacked(other, a.playerAttackGrid) =>
                        \E a2 \in {handleGameState(
                                     [s1 EXCEPT !.arduinoGrid =
                                         AttackedLayout(other, s1.playerAttackGrid)], in, h)} :
                            /\ OpponentView(a2) = OpponentView(a)
                            /\ [a2 EXCEPT !.arduinoGrid = a.arduinoGrid] = a
                            /\ a2.arduinoGrid = AttackedLayout(other, a.playerAttackGrid)

\* The player has just hit a cell, and a fleet other than the one being played
\* has a ship on every cell hit so far and none on the cells missed.
C18_Witness ==
    /\ ev.act = "playerHit"
    /\ gameState = "ARDUINO_TURN"
    /\ \E c \in Cells : playerAttackGrid[c[1]][c[2]] = ATTACK_MISS
    /\ \E other \in placeArduinoShips :
            /\ AgreesOnAttacked(other, playerAttackGrid)
            /\ AttackedLayout(other, playerAttackGrid) # arduinoGrid

(***************************************************************************)
(* Room for the roster: the placements of battle_ship_serial_monitor.ino   *)
(* on a board with the proportions of the 12 x 12 build, three ships of    *)
(* different lengths placed in roster order.  playerPlaceShips and         *)
(* placeArduinoShips place through the same canPlaceShip and placeShip, in *)
(* the same order and with the same ids, so the grids one of them can      *)
(* reach are the grids the other can reach.                                *)
(***************************************************************************)
RoomGridSize == 6
RoomShips == <<3, 2, 1>>

\* One outcome of the draws of placeArduinoShips: each ship lying at the first
\* anchor, scanning the rows, that canPlaceShip accepts.
RECURSIVE firstFleetFrom(_, _, _)
firstFleetFrom(grid, id, fleet) ==
    IF id >= NUM_SHIPS
    THEN fleet = grid
    ELSE \E ok \in {{c \in Cells : canPlaceShip(grid, c[1], c[2], ships[id + 1], TRUE)}} :
         \E at \in ok :
            /\ \A d \in ok : at[2] < d[2] \/ (at[2] = d[2] /\ at[1] <= d[1])
            /\ \E placed \in {placeShip(grid, at[1], at[2], ships[id + 1], TRUE, id + 1)} :
                  firstFleetFrom(placed, id + 1, fleet)

InitRoom ==
    /\ sketch = "serial_monitor"
    /\ GRID_SIZE = RoomGridSize
    /\ ships = RoomShips
    /\ env = NoButtons
    /\ gameState = "PLACING_SHIPS"
    /\ firstFleetFrom(FilledGrid(EMPTY), 0, arduinoGrid)
    /\ playerGrid = FilledGrid(EMPTY)
    /\ playerAttackGrid = FilledGrid(ATTACK_UNTRIED)
    /\ arduinoAttackGrid = FilledGrid(ATTACK_UNTRIED)
    /\ cursorX = 0
    /\ cursorY = 0
    /\ redButtonState = "HIGH"
    /\ lastRedButtonState = "HIGH"
    /\ lastBlueButtonState = "HIGH"
    /\ blueButtonLongPressHandled = FALSE
    /\ blueButtonShortPress = FALSE
    /\ playerShipHorizontal = TRUE
    /\ arduinoAttackMode = "HUNT_MODE"
    /\ lastHitX = 0
    /\ lastHitY = 0
    /\ targetIndex = 0
    /\ targetList = [i \in 0 .. 3 |-> <<0, 0>>]
    /\ targetListInitialized = FALSE
    /\ shipId = 0
    /\ ev = [NoEvent("WAITING_TO_START") EXCEPT !.reset = "short"]

SpecRoom == InitRoom /\ [][placeAnywhere]_vars

\* The anchors and orientations at which canPlaceShip accepts roster ship id + 1.
LegalAnchors(grid, id) ==
    {c \in Coord \X Coord \X BOOLEAN : canPlaceShip(grid, c[1], c[2], ships[id + 1], c[3])}

PolicyGridSize == 3
PolicyShips == <<2, 1>>

\* countRemainingShips counting the cells whose low bit is set.
countRemainingShips_LowBit_tc(grid) ==
    Cardinality({c \in Cells : getCellState(grid, c[1], c[2]) % 2 = 1}) % 256

\* countRemainingShips of the packed sketches: the cells in state CELL_SHIP.
countRemainingShips_tc(grid) ==
    Cardinality({c \in Cells : getCellState(grid, c[1], c[2]) = CELL_SHIP}) % 256

\* playerAttack of the packed sketches once the red button press is accepted,
\* on s = [gameState, arduinoGrid, playerAttackGrid, cursorX, cursorY].
playerAttack_HitErasesShip_tc(s) ==
    LET x == s.cursorX
        y == s.cursorY
    IN  IF getCellState(s.playerAttackGrid, x, y) = CELL_EMPTY
        THEN IF getCellState(s.arduinoGrid, x, y) = CELL_SHIP
             THEN LET hit == [s EXCEPT
                                !.playerAttackGrid = setCellState(@, x, y, CELL_HIT),
                                !.arduinoGrid = setCellState(@, x, y, CELL_MISS)]
                  IN  IF countRemainingShips_tc(hit.arduinoGrid) = 0
                      THEN [hit EXCEPT !.gameState = "GAME_OVER"]
                      ELSE [hit EXCEPT !.gameState = "ARDUINO_TURN"]
             ELSE [s EXCEPT !.playerAttackGrid = setCellState(@, x, y, CELL_MISS),
                            !.arduinoGrid = setCellState(@, x, y, CELL_MISS),
                            !.gameState = "ARDUINO_TURN"]
        ELSE s

playerAttack_tc(s) ==
    LET x == s.cursorX
        y == s.cursorY
    IN  IF getCellState(s.playerAttackGrid, x, y) = CELL_EMPTY
        THEN IF getCellState(s.arduinoGrid, x, y) = CELL_SHIP
             THEN LET hit == [s EXCEPT
                                !.playerAttackGrid = setCellState(@, x, y, CELL_HIT),
                                !.arduinoGrid = setCellState(@, x, y, CELL_HIT)]
                  IN  IF countRemainingShips_tc(hit.arduinoGrid) = 0
                      THEN [hit EXCEPT !.gameState = "GAME_OVER"]
                      ELSE [hit EXCEPT !.gameState = "ARDUINO_TURN"]
             ELSE [s EXCEPT !.playerAttackGrid = setCellState(@, x, y, CELL_MISS),
                            !.arduinoGrid = setCellState(@, x, y, CELL_MISS),
                            !.gameState = "ARDUINO_TURN"]
        ELSE s

\* The fleets placeArduinoShips can draw, each as the three sketches store it.
RECURSIVE storedFleets(_, _, _, _, _)
storedFleets(sm, tc, p1, id, fleet) ==
    IF id >= NUM_SHIPS
    THEN fleet = [sm |-> sm, tc |-> tc, p1 |-> p1]
    ELSE \E c \in Coord \X Coord \X BOOLEAN :
            /\ canPlaceShip(sm, c[1], c[2], ships[id + 1], c[3])
            /\ \E a \in {placeShip(sm, c[1], c[2], ships[id + 1], c[3], id + 1)} :
               \E b \in {placeShip_tc(tc, c[1], c[2], ships[id + 1], c[3])} :
               \E d \in {placeShip_001(p1, c[1], c[2], ships[id + 1], c[3], id + 1)} :
                  storedFleets(a, b, d, id + 1, fleet)

InitPolicies ==
    /\ sketch = "test_code/2"
    /\ GRID_SIZE = PolicyGridSize
    /\ ships = PolicyShips
    /\ env = NoButtons
    /\ gameState = [sm |-> "PLAYER_TURN", tc |-> "PLAYER_TURN", p1 |-> "PLAYER_TURN"]
    /\ storedFleets(FilledGrid(EMPTY), [i \in 0 .. (gridBytes - 1) |-> 0],
                    FilledGrid(EMPTY), 0, arduinoGrid)
    /\ firstFleetFrom(FilledGrid(EMPTY), 0, playerGrid)
    /\ playerAttackGrid = [sm |-> FilledGrid(ATTACK_UNTRIED),
                           tc |-> [i \in 0 .. (gridBytes - 1) |-> 0],
                           p1 |-> FilledGrid(ATTACK_UNTRIED)]
    /\ arduinoAttackGrid = FilledGrid(ATTACK_UNTRIED)
    /\ cursorX = 0
    /\ cursorY = 0
    /\ redButtonState = "HIGH"
    /\ lastRedButtonState = "LOW"
    /\ lastBlueButtonState = "HIGH"
    /\ blueButtonLongPressHandled = FALSE
    /\ blueButtonShortPress = FALSE
    /\ playerShipHorizontal = TRUE
    /\ arduinoAttackMode = "HUNT_MODE"
    /\ lastHitX = 0
    /\ lastHitY = 0
    /\ targetIndex = 0
    /\ targetList = [i \in 0 .. 3 |-> <<0, 0>>]
    /\ targetListInitialized = FALSE
    /\ shipId = NUM_SHIPS
    /\ ev = NoEvent("PLAYER_TURN")

\* The state one sketch is in, with the cursor on (x, y) for its next attack.
SketchState(k, x, y) ==
    [St EXCEPT !.gameState = gameState[k], !.arduinoGrid = arduinoGrid[k],
               !.playerAttackGrid = playerAttackGrid[k],
               !.cursorX = x, !.cursorY = y, !.ev = NoEvent(gameState[k])]

\* The player attacks (x, y), a cell not attacked before, in every sketch whose
\* game is not over: the red button is pressed with the cursor there.
attackSideBySide ==
    /\ \E k \in {"sm", "tc", "p1"} : gameState[k] # "GAME_OVER"
    /\ \E x \in Coord : \E y \in Coord :
          /\ playerAttackGrid.sm[x][y] = ATTACK_UNTRIED
          /\ LET press == [red |-> "LOW", redElapsed |-> TRUE, joyReady |-> FALSE,
                           xDir |-> 0, yDir |-> 0]
             IN  \E a \in {IF gameState.sm = "GAME_OVER" THEN SketchState("sm", x, y)
                           ELSE playerAttack(SketchState("sm", x, y), press)} :
                 \E b \in {IF gameState.tc = "GAME_OVER" THEN SketchState("tc", x, y)
                           ELSE playerAttack_tc(SketchState("tc", x, y))} :
                 \E d \in {IF gameState.p1 = "GAME_OVER" THEN SketchState("p1", x, y)
                           ELSE playerAttack_001(SketchState("p1", x, y), press)} :
                    /\ gameState' = [sm |-> a.gameState, tc |-> b.gameState,
                                     p1 |-> d.gameState]
                    /\ arduinoGrid' = [sm |-> a.arduinoGrid, tc |-> b.arduinoGrid,
                                       p1 |-> d.arduinoGrid]
                    /\ playerAttackGrid' = [sm |-> a.playerAttackGrid,
                                            tc |-> b.playerAttackGrid,
                                            p1 |-> d.playerAttackGrid]
                    /\ ev' = [NoEvent("PLAYER_TURN") EXCEPT !.act = a.ev.act]
    /\ UNCHANGED <<sketch, GRID_SIZE, ships, env, playerGrid, arduinoAttackGrid,
                   cursorX, cursorY, redButtonState, lastRedButtonState,
                   lastBlueButtonState, blueButtonLongPressHandled,
                   blueButtonShortPress, playerShipHorizontal, arduinoAttackMode,
                   lastHitX, lastHitY, targetIndex, targetList, targetListInitialized,
                   shipId>>

SpecPolicies == InitPolicies /\ [][attackSideBySide]_vars

\* The ship cells of the fleet that no attack has hit, read from the id grid.
UnhitCells(grid) == {c \in Cells : grid[c[1]][c[2]] > 0}

\* C20 as amended: the two policies report different numbers, cells left against
\* ships left, but they report zero in the same states, those with no un-hit
\* ship cell, and so does checkWin; the three sketches declare GAME_OVER at
\* the same attack.
C20_SameWinTiming ==
    /\ countRemainingShips_tc(arduinoGrid.tc) = Cardinality(UnhitCells(arduinoGrid.sm))
    /\ countRemainingShips(arduinoGrid.sm)
          = Cardinality({arduinoGrid.sm[c[1]][c[2]] : c \in UnhitCells(arduinoGrid.sm)})
    /\ (countRemainingShips(arduinoGrid.sm) = 0)
          <=> (countRemainingShips_tc(arduinoGrid.tc) = 0)
    /\ (countRemainingShips(arduinoGrid.sm) = 0) <=> checkWin_001(arduinoGrid.p1)
    /\ (gameState.sm = "GAME_OVER") <=> (gameState.tc = "GAME_OVER")
    /\ (gameState.sm = "GAME_OVER") <=> (gameState.p1 = "GAME_OVER")
    /\ (gameState.sm = "GAME_OVER") <=> (countRemainingShips(arduinoGrid.sm) = 0)

\* The attack that hits the last cell of the longer ship, after the short ship
\* was sunk and a cell was missed: every sketch declares GAME_OVER at it.
C20_Witness ==
    /\ ev.act = "playerHit"
    /\ Cardinality({c \in Cells : arduinoGrid.sm[c[1]][c[2]] = SHIP_HIT}) = 3
    /\ gameState = [sm |-> "GAME_OVER", tc |-> "GAME_OVER", p1 |-> "GAME_OVER"]
    /\ \E c \in Cells : playerAttackGrid.sm[c[1]][c[2]] = ATTACK_MISS
    /\ countRemainingShips_tc(arduinoGrid.tc) = 0

\* C20 as stated: with ships of different lengths the two policies give
\* different win timing, that is, no attack makes the cell count and the ship
\* count reach zero together.
C20_DifferentWinTiming ==
    [][(\E i, j \in 1 .. NUM_SHIPS : ships[i] # ships[j])
          => ~(/\ countRemainingShips(arduinoGrid.sm) # 0
               /\ countRemainingShips_tc(arduinoGrid.tc) # 0
               /\ countRemainingShips(arduinoGrid'.sm) = 0
               /\ countRemainingShips_tc(arduinoGrid'.tc) = 0)]_vars

(***************************************************************************)
(* MISS on the defender's grid.  The battle of part_000, which records a   *)
(* miss on the attacker's attack grid only, beside the battle of the       *)
(* second listing of the test code, which also writes CELL_MISS onto the   *)
(* grid that was shot at.  Both start from the same placements and get the *)
(* same attack coordinates.  Every variable a battle writes holds one      *)
(* value per sketch, p0 and tc; k names the sketch an operator runs as.    *)
(***************************************************************************)
MissGridSize == 2
MissShips == <<2>>

Sketches == {"p0", "tc"}

getCellStateOf(k, grid, x, y) ==
    IF k = "p0" THEN getCellState_000(grid, x, y) ELSE getCellState_tc2(grid, x, y)

setCellStateOf(k, grid, x, y, state) ==
    IF k = "p0" THEN setCellState_000(grid, x, y, state)
    ELSE setCellState_tc2(grid, x, y, state)

\* The grid arrays of the two sketches, zeroed by initializeGrids.
zeroGridOf(k) ==
    IF k = "p0"
    THEN [i \in 0 .. ((GRID_SIZE * GRID_SIZE + 3) \div 4) |-> 0]
    ELSE [i \in 0 .. ((GRID_SIZE * GRID_SIZE * 2 + 7) \div 8 - 1) |-> 0]

countRemainingShipsOf(k, grid) ==
    Cardinality({c \in Cells : getCellStateOf(k, grid, c[1], c[2]) = CELL_SHIP}) % 256

RECURSIVE placeShipOf(_, _, _, _, _, _)
placeShipOf(k, grid, x, y, size, horizontal) ==
    IF size = 0
    THEN grid
    ELSE LET rest == placeShipOf(k, grid, x, y, size - 1, horizontal)
         IN  IF horizontal
             THEN setCellStateOf(k, rest, x + (size - 1), y, CELL_SHIP)
             ELSE setCellStateOf(k, rest, x, y + (size - 1), CELL_SHIP)

\* The miss written onto the defender's grid at (y, x).
defenderMiss_Transposed(k, grid, x, y) ==
    IF k = "tc" THEN setCellStateOf(k, grid, y, x, CELL_MISS) ELSE grid

\* The write of the miss branches that only the test code has:
\* setCellState(arduinoGrid or playerGrid, x, y, CELL_MISS).
defenderMiss(k, grid, x, y) ==
    IF k = "tc" THEN setCellStateOf(k, grid, x, y, CELL_MISS) ELSE grid

\* playerAttack once the press of the red button is accepted, the cursor on
\* (s.cursorX, s.cursorY).  part_000 counts after a hit and after a miss, the
\* test code after a hit.
playerAttackOf(k, s) ==
    LET x == s.cursorX
        y == s.cursorY
    IN  IF getCellStateOf(k, s.playerAttackGrid, x, y) = CELL_EMPTY
        THEN IF getCellStateOf(k, s.arduinoGrid, x, y) = CELL_SHIP
             THEN LET hit == [s EXCEPT
                                !.playerAttackGrid = setCellStateOf(k, @, x, y, CELL_HIT),
                                !.arduinoGrid = setCellStateOf(k, @, x, y, CELL_HIT),
                                !.ev = [act |-> "playerHit", x |-> x, y |-> y]]
                  IN  IF countRemainingShipsOf(k, hit.arduinoGrid) = 0
                      THEN [hit EXCEPT !.gameState = "GAME_OVER"]
                      ELSE [hit EXCEPT !.gameState = "ARDUINO_TURN"]
             ELSE LET miss == [s EXCEPT
                                !.playerAttackGrid = setCellStateOf(k, @, x, y, CELL_MISS),
                                !.arduinoGrid = defenderMiss(k, @, x, y),
                                !.ev = [act |-> "playerMiss", x |-> x, y |-> y]]
                  IN  IF k = "p0" /\ countRemainingShipsOf(k, miss.arduinoGrid) = 0
                      THEN [miss EXCEPT !.gameState = "GAME_OVER"]
                      ELSE [miss EXCEPT !.gameState = "ARDUINO_TURN"]
        ELSE [s EXCEPT !.ev = [act |-> "alreadyTried", x |-> x, y |-> y]]

\* The hit and miss branches of arduinoAttack at (x, y), the same in hunt and
\* in target mode; the test code sets TARGET_MODE again in target mode.
resolveArduinoAttackOf(k, s, x, y) ==
    IF getCellStateOf(k, s.playerGrid, x, y) = CELL_SHIP
    THEN [s EXCEPT !.arduinoAttackGrid = setCellStateOf(k, @, x, y, CELL_HIT),
                   !.playerGrid = setCellStateOf(k, @, x, y, CELL_HIT),
                   !.lastHitX = x,
                   !.lastHitY = y,
                   !.arduinoAttackMode =
                        IF @ = "HUNT_MODE" \/ k = "tc" THEN "TARGET_MODE" ELSE @,
                   !.targetIndex = 0,
                   !.targetListInitialized = FALSE,
                   !.ev = [act |-> "arduinoHit", x |-> x, y |-> y]]
    ELSE [s EXCEPT !.arduinoAttackGrid = setCellStateOf(k, @, x, y, CELL_MISS),
                   !.playerGrid = defenderMiss(k, @, x, y),
                   !.ev = [act |-> "arduinoMiss", x |-> x, y |-> y]]

\* The while loop over targetList, on the packed attack grid.
targetScanOf(k, s) ==
    LET untried == {i \in s.targetIndex .. 3 :
                       getCellStateOf(k, s.arduinoAttackGrid,
                                      s.targetList[i][1], s.targetList[i][2]) = CELL_EMPTY}
        found == IF untried = {} THEN 4
                 ELSE CHOOSE i \in untried : \A j \in untried : i <= j
    IN  [validAttack |-> untried # {},
         found |-> found,
         targetIndex |-> IF untried # {} THEN found + 1
                         ELSE IF s.targetIndex < 4 THEN 4 ELSE s.targetIndex]

arduinoAttackEndOf(k, s) ==
    IF countRemainingShipsOf(k, s.playerGrid) = 0
    THEN [s EXCEPT !.gameState = "GAME_OVER"]
    ELSE [s EXCEPT !.gameState = "PLAYER_TURN"]

\* arduinoAttack of the packed sketches; h is the cell the sampling loop of
\* hunt mode ends with.
RECURSIVE arduinoAttackOf(_, _, _)
arduinoAttackOf(k, s, h) ==
    IF s.arduinoAttackMode = "HUNT_MODE"
    THEN arduinoAttackEndOf(k, resolveArduinoAttackOf(k, s, h[1], h[2]))
    ELSE LET s1 == initTargetList(s)
             scan == targetScanOf(k, s1)
         IN  IF scan.validAttack
             THEN arduinoAttackEndOf(k,
                     resolveArduinoAttackOf(k, [s1 EXCEPT !.targetIndex = scan.targetIndex],
                                            s1.targetList[scan.found][1],
                                            s1.targetList[scan.found][2]))
             ELSE arduinoAttackOf(k, [s1 EXCEPT !.targetIndex = scan.targetIndex,
                                                !.arduinoAttackMode = "HUNT_MODE"], h)

\* TRUE when arduinoAttack run in state s reaches the sampling loop.
reachesHuntOf(k, s) ==
    \/ s.arduinoAttackMode = "HUNT_MODE"
    \/ ~targetScanOf(k, initTargetList(s)).validAttack

\* The battle state of sketch k.
RunOf(k) ==
    [gameState |-> gameState[k], playerGrid |-> playerGrid[k],
     arduinoGrid |-> arduinoGrid[k], playerAttackGrid |-> playerAttackGrid[k],
     arduinoAttackGrid |-> arduinoAttackGrid[k], cursorX |-> cursorX, cursorY |-> cursorY,
     arduinoAttackMode |-> arduinoAttackMode[k], lastHitX |-> lastHitX[k],
     lastHitY |-> lastHitY[k], targetIndex |-> targetIndex[k],
     targetList |-> targetList[k], targetListInitialized |-> targetListInitialized[k],
     ev |-> ev[k]]

\* The next state holds run a of part_000 and run b of the test code.
BecomesBoth(a, b) ==
    /\ gameState' = [p0 |-> a.gameState, tc |-> b.gameState]
    /\ playerGrid' = [p0 |-> a.playerGrid, tc |-> b.playerGrid]
    /\ arduinoGrid' = [p0 |-> a.arduinoGrid, tc |-> b.arduinoGrid]
    /\ playerAttackGrid' = [p0 |-> a.playerAttackGrid, tc |-> b.playerAttackGrid]
    /\ arduinoAttackGrid' = [p0 |-> a.arduinoAttackGrid, tc |-> b.arduinoAttackGrid]
    /\ arduinoAttackMode' = [p0 |-> a.arduinoAttackMode, tc |-> b.arduinoAttackMode]
    /\ lastHitX' = [p0 |-> a.lastHitX, tc |-> b.lastHitX]
    /\ lastHitY' = [p0 |-> a.lastHitY, tc |-> b.lastHitY]
    /\ targetIndex' = [p0 |-> a.targetIndex, tc |-> b.targetIndex]
    /\ targetList' = [p0 |-> a.targetList, tc |-> b.targetList]
    /\ targetListInitialized' = [p0 |-> a.targetListInitialized,
                                 tc |-> b.targetListInitialized]
    /\ ev' = [p0 |-> a.ev, tc |-> b.ev]
    /\ UNCHANGED <<sketch, GRID_SIZE, ships, env, redButtonState, lastRedButtonState,
                   lastBlueButtonState, blueButtonLongPressHandled,
                   blueButtonShortPress, playerShipHorizontal, shipId>>

\* Both sketches after resetGame and the player's placement: the Arduino's
\* ship and the player's ship lie at the same anchors in both.
InitMiss ==
    /\ sketch = "part_000 and test_code/2"
    /\ GRID_SIZE = MissGridSize
    /\ ships = MissShips
    /\ env = NoButtons
    /\ gameState = [k \in Sketches |-> "PLAYER_TURN"]
    /\ \E c \in Coord \X Coord \X BOOLEAN :
          /\ canPlaceShip(FilledGrid(EMPTY), c[1], c[2], ships[1], c[3])
          /\ arduinoGrid = [k \in Sketches |->
                               placeShipOf(k, zeroGridOf(k), c[1], c[2], ships[1], c[3])]
    /\ \E c \in Coord \X Coord \X BOOLEAN :
          /\ canPlaceShip(FilledGrid(EMPTY), c[1], c[2], ships[1], c[3])
          /\ playerGrid = [k \in Sketches |->
                              placeShipOf(k, zeroGridOf(k), c[1], c[2], ships[1], c[3])]
    /\ playerAttackGrid = [k \in Sketches |-> zeroGridOf(k)]
    /\ arduinoAttackGrid = [k \in Sketches |-> zeroGridOf(k)]
    /\ cursorX = 0
    /\ cursorY = 0
    /\ redButtonState = "HIGH"
    /\ lastRedButtonState = "HIGH"
    /\ lastBlueButtonState = "HIGH"
    /\ blueButtonLongPressHandled = FALSE
    /\ blueButtonShortPress = FALSE
    /\ playerShipHorizontal = TRUE
    /\ arduinoAttackMode = [k \in Sketches |-> "HUNT_MODE"]
    /\ lastHitX = [k \in Sketches |-> 0]
    /\ lastHitY = [k \in Sketches |-> 0]
    /\ targetIndex = [k \in Sketches |-> 0]
    /\ targetList = [k \in Sketches |-> [i \in 0 .. 3 |-> <<0, 0>>]]
    /\ targetListInitialized = [k \in Sketches |-> FALSE]
    /\ shipId = NUM_SHIPS
    /\ ev = [k \in Sketches |-> [act |-> "none", x |-> 0, y |-> 0]]

\* A tick of PLAYER_TURN in which the red button is pressed with the cursor
\* on (x, y), in each sketch that is in that phase.
playerAttackBoth ==
    /\ \E k \in Sketches : gameState[k] = "PLAYER_TURN"
    /\ \E x \in Coord : \E y \in Coord :
          /\ cursorX' = x
          /\ cursorY' = y
          /\ \E a \in {IF gameState.p0 = "PLAYER_TURN"
                       THEN playerAttackOf("p0", [RunOf("p0") EXCEPT !.cursorX = x,
                                                                   !.cursorY = y])
                       ELSE RunOf("p0")} :
             \E b \in {IF gameState.tc = "PLAYER_TURN"
                       THEN playerAttackOf("tc", [RunOf("tc") EXCEPT !.cursorX = x,
                                                                   !.cursorY = y])
                       ELSE RunOf("tc")} :
                BecomesBoth(a, b)

\* The cells the sampling loop of hunt mode can end with in sketch k.
huntCellsOf(k) ==
    {c \in Cells : getCellStateOf(k, arduinoAttackGrid[k], c[1], c[2]) = CELL_EMPTY}

\* A tick of ARDUINO_TURN in each sketch that is in that phase, the random
\* draws of the two being the same.
arduinoAttackBoth ==
    /\ \E k \in Sketches : gameState[k] = "ARDUINO_TURN"
    /\ \E h \in (IF \E k \in Sketches :
                       gameState[k] = "ARDUINO_TURN" /\ reachesHuntOf(k, RunOf(k))
                 THEN huntCellsOf("p0") \cap huntCellsOf("tc")
                 ELSE {<<0, 0>>}) :
          \E a \in {IF gameState.p0 = "ARDUINO_TURN"
                    THEN arduinoAttackOf("p0", RunOf("p0"), h) ELSE RunOf("p0")} :
          \E b \in {IF gameState.tc = "ARDUINO_TURN"
                    THEN arduinoAttackOf("tc", RunOf("tc"), h) ELSE RunOf("tc")} :
             /\ BecomesBoth(a, b)
             /\ UNCHANGED <<cursorX, cursorY>>

NextMiss == playerAttackBoth \/ arduinoAttackBoth

SpecMiss == InitMiss /\ [][NextMiss]_vars

\* The cell states of a packed grid, cell by cell.
CellsOf(k, grid) == [c \in Cells |-> getCellStateOf(k, grid, c[1], c[2])]

\* C21: writing MISS onto the defender's grid changes nothing that is observed:
\* after every step the two sketches have resolved the same attack with the
\* same outcome (hit, miss or rejected), their attack grids hold the same
\* cells, countRemainingShips gives the same counts, and the AI mode and the
\* phase are the same; their ownership grids differ only in cells that are
\* CELL_EMPTY in the one and CELL_MISS in the other.
C21_DefenderMissEquivalent ==
    /\ ev.p0 = ev.tc
    /\ CellsOf("p0", playerAttackGrid.p0) = CellsOf("tc", playerAttackGrid.tc)
    /\ CellsOf("p0", arduinoAttackGrid.p0) = CellsOf("tc", arduinoAttackGrid.tc)
    /\ countRemainingShipsOf("p0", playerGrid.p0) = countRemainingShipsOf("tc", playerGrid.tc)
    /\ countRemainingShipsOf("p0", arduinoGrid.p0)
          = countRemainingShipsOf("tc", arduinoGrid.tc)
    /\ arduinoAttackMode.p0 = arduinoAttackMode.tc
    /\ gameState.p0 = gameState.tc
    /\ lastHitX.p0 = lastHitX.tc /\ lastHitY.p0 = lastHitY.tc
    /\ targetIndex.p0 = targetIndex.tc
    /\ targetListInitialized.p0 = targetListInitialized.tc
    /\ \A c \in Cells :
          /\ CellsOf("p0", playerGrid.p0)[c] # CellsOf("tc", playerGrid.tc)[c]
                => (/\ CellsOf("p0", playerGrid.p0)[c] = CELL_EMPTY
                    /\ CellsOf("tc", playerGrid.tc)[c] = CELL_MISS)
          /\ CellsOf("p0", arduinoGrid.p0)[c] # CellsOf("tc", arduinoGrid.tc)[c]
                => (/\ CellsOf("p0", arduinoGrid.p0)[c] = CELL_EMPTY
                    /\ CellsOf("tc", arduinoGrid.tc)[c] = CELL_MISS)

\* Both defenders' grids of the test code carry a MISS that part_000 does not
\* have, the AI is in target mode and the game goes on.
C21_Witness ==
    /\ \E c \in Cells : /\ CellsOf("tc", playerGrid.tc)[c] = CELL_MISS
                        /\ CellsOf("p0", playerGrid.p0)[c] = CELL_EMPTY
    /\ \E c \in Cells : /\ CellsOf("tc", arduinoGrid.tc)[c] = CELL_MISS
                        /\ CellsOf("p0", arduinoGrid.p0)[c] = CELL_EMPTY
    /\ arduinoAttackMode.tc = "TARGET_MODE"
    /\ gameState.p0 = "PLAYER_TURN"
    /\ ev.p0.act = "arduinoHit"

(***************************************************************************)
(* The cursor.  cursorX and cursorY are written by updateCursorPosition    *)
(* and by resetGame and nowhere else, in battle_ship_serial_monitor.ino    *)
(* and in the second listing of the test code.  Both are uint8_t.          *)
(*   in.joyReady, in.xDir, in.yDir   as for updateCursorPosition above     *)
(* ev is the last call: its inputs and the value updateCursorPosition      *)
(* returned.                                                               *)
(***************************************************************************)
CursorGridSize == 3

\* updateCursorPosition of the test code stepping without looking at the far edge.
updateCursorPosition_NoEdge_tc(s, in) ==
    IF ~in.joyReady
    THEN [s EXCEPT !.moved = FALSE]
    ELSE LET s1 == IF in.xDir = -1
                   THEN (IF s.cursorX > 0
                         THEN [s EXCEPT !.cursorX = (@ - 1) % 256, !.moved = TRUE]
                         ELSE [s EXCEPT !.moved = FALSE])
                   ELSE IF in.xDir = 1
                        THEN [s EXCEPT !.cursorX = (@ + 1) % 256, !.moved = TRUE]
                        ELSE [s EXCEPT !.moved = FALSE]
         IN  IF in.yDir = 1
             THEN (IF s1.cursorY > 0
                   THEN [s1 EXCEPT !.cursorY = (@ - 1) % 256, !.moved = TRUE]
                   ELSE s1)
             ELSE IF in.yDir = -1
                  THEN [s1 EXCEPT !.cursorY = (@ + 1) % 256, !.moved = TRUE]
                  ELSE s1

\* updateCursorPosition of the test code: the Y axis is reversed, and moved is
\* set only by a step that changes the cursor.
updateCursorPosition_tc(s, in) ==
    IF ~in.joyReady
    THEN [s EXCEPT !.moved = FALSE]
    ELSE LET s1 == IF in.xDir = -1
                   THEN (IF s.cursorX > 0
                         THEN [s EXCEPT !.cursorX = (@ - 1) % 256, !.moved = TRUE]
                         ELSE [s EXCEPT !.moved = FALSE])
                   ELSE IF in.xDir = 1
                        THEN (IF s.cursorX < GRID_SIZE - 1
                              THEN [s EXCEPT !.cursorX = (@ + 1) % 256, !.moved = TRUE]
                              ELSE [s EXCEPT !.moved = FALSE])
                        ELSE [s EXCEPT !.moved = FALSE]
         IN  IF in.yDir = 1
             THEN (IF s1.cursorY > 0
                   THEN [s1 EXCEPT !.cursorY = (@ - 1) % 256, !.moved = TRUE]
                   ELSE s1)
             ELSE IF in.yDir = -1
                  THEN (IF s1.cursorY < GRID_SIZE - 1
                        THEN [s1 EXCEPT !.cursorY = (@ + 1) % 256, !.moved = TRUE]
                        ELSE s1)
                  ELSE s1

InitCursor ==
    /\ sketch \in {"serial_monitor", "test_code/2"}
    /\ GRID_SIZE = CursorGridSize
    /\ ships = <<>>
    /\ env = NoButtons
    /\ gameState = "PLACING_SHIPS"
    /\ playerGrid = FilledGrid(EMPTY)
    /\ arduinoGrid = FilledGrid(EMPTY)
    /\ playerAttackGrid = FilledGrid(ATTACK_UNTRIED)
    /\ arduinoAttackGrid = FilledGrid(ATTACK_UNTRIED)
    /\ cursorX = 0
    /\ cursorY = 0
    /\ redButtonState = "HIGH"
    /\ lastRedButtonState = "HIGH"
    /\ lastBlueButtonState = "HIGH"
    /\ blueButtonLongPressHandled = FALSE
    /\ blueButtonShortPress = FALSE
    /\ playerShipHorizontal = TRUE
    /\ arduinoAttackMode = "HUNT_MODE"
    /\ lastHitX = 0
    /\ lastHitY = 0
    /\ targetIndex = 0
    /\ targetList = [i \in 0 .. 3 |-> <<0, 0>>]
    /\ targetListInitialized = FALSE
    /\ shipId = 0
    /\ ev = [act |-> "reset", joyReady |-> FALSE, xDir |-> 0, yDir |-> 0, moved |-> FALSE]

\* The variables a write of the cursor leaves alone.
notCursor == <<sketch, GRID_SIZE, ships, env, gameState, playerGrid, arduinoGrid,
               playerAttackGrid, arduinoAttackGrid, redButtonState, lastRedButtonState,
               lastBlueButtonState, blueButtonLongPressHandled, blueButtonShortPress,
               playerShipHorizontal, arduinoAttackMode, lastHitX, lastHitY, targetIndex,
               targetList, targetListInitialized, shipId>>

\* A call of updateCursorPosition, from playerPlaceShips or playerAttack.
moveCursor ==
    /\ \E joyReady \in BOOLEAN : \E xDir \in -1 .. 1 : \E yDir \in -1 .. 1 :
          LET in == [joyReady |-> joyReady, xDir |-> xDir, yDir |-> yDir]
              s == [cursorX |-> cursorX, cursorY |-> cursorY, moved |-> FALSE]
          IN  \E r \in {IF sketch = "serial_monitor"
                        THEN [updateCursorPosition(s, in) EXCEPT !.moved = joyReady /\ (xDir # 0 \/ yDir # 0)]
                        ELSE updateCursorPosition_tc(s, in)} :
                 /\ cursorX' = r.cursorX
                 /\ cursorY' = r.cursorY
                 /\ ev' = [act |-> "move", joyReady |-> joyReady, xDir |-> xDir,
                           yDir |-> yDir, moved |-> r.moved]
    /\ UNCHANGED notCursor

\* The cursor writes of resetGame.
resetCursor ==
    /\ cursorX' = 0
    /\ cursorY' = 0
    /\ ev' = [act |-> "reset", joyReady |-> FALSE, xDir |-> 0, yDir |-> 0, moved |-> FALSE]
    /\ UNCHANGED notCursor

NextCursor == moveCursor \/ resetCursor

SpecCursor == InitCursor /\ [][NextCursor]_vars

\* C22: the cursor stays inside the grid, 0 <= cursorX <= GRID_SIZE - 1 and
\* 0 <= cursorY <= GRID_SIZE - 1, after every sequence of joystick movements
\* and resets, in both sketches.
C22_CursorInGrid ==
    /\ cursorX \in 0 .. (GRID_SIZE - 1)
    /\ cursorY \in 0 .. (GRID_SIZE - 1)

\* The test code's cursor in the far corner after a push further right and
\* further down, which moved nothing.
C22_Witness ==
    /\ sketch = "test_code/2"
    /\ cursorX = GRID_SIZE - 1
    /\ cursorY = GRID_SIZE - 1
    /\ ev.act = "move" /\ ev.joyReady /\ ev.xDir = 1 /\ ev.yDir = -1
    /\ ~ev.moved

(***************************************************************************)
(* The results of the Arduino's attacks, under SpecAI.                     *)
(***************************************************************************)
\* C23: a hunt-mode attack at (x, y) that hits leaves the AI in TARGET_MODE with
\* lastHit = (x, y), targetIndex = 0 and the target list marked uninitialised;
\* one that misses leaves it in HUNT_MODE with lastHit unchanged, and with
\* targetIndex and the target list unchanged when the turn began in hunt mode.
C23_HuntResult ==
    [][(ev'.pre = "ARDUINO_TURN" /\ ev'.reset = "none" /\ ev'.via \in {"hunt", "fallback"})
          => /\ ev'.act \in {"arduinoHit", "arduinoMiss"}
             /\ ev'.act = "arduinoHit"
                   => /\ arduinoAttackMode' = "TARGET_MODE"
                      /\ lastHitX' = ev'.x /\ lastHitY' = ev'.y
                      /\ targetIndex' = 0
                      /\ ~targetListInitialized'
                      /\ arduinoAttackGrid'[ev'.x][ev'.y] = ATTACK_HIT
             /\ ev'.act = "arduinoMiss"
                   => /\ arduinoAttackMode' = "HUNT_MODE"
                      /\ lastHitX' = lastHitX /\ lastHitY' = lastHitY
                      /\ arduinoAttackGrid'[ev'.x][ev'.y] = ATTACK_MISS
                      /\ ev'.via = "hunt"
                            => /\ arduinoAttackMode = "HUNT_MODE"
                               /\ targetIndex' = targetIndex
                               /\ targetList' = targetList
                               /\ targetListInitialized' = targetListInitialized]_vars

\* A hunt-mode hit after an earlier chase: the list of that chase is still in
\* targetList, and the hit has reset targetIndex and the initialised flag.
C23_Witness ==
    /\ ev.pre = "ARDUINO_TURN" /\ ev.via = "hunt" /\ ev.act = "arduinoHit"
    /\ arduinoAttackMode = "TARGET_MODE"
    /\ lastHitX = ev.x /\ lastHitY = ev.y
    /\ targetIndex = 0
    /\ ~targetListInitialized
    /\ targetList # [i \in 0 .. 3 |-> <<0, 0>>]

\* The neighbours of (x, y) that lie on the grid, in the order left, right, up,
\* down.
NeighboursOnGrid(x, y) ==
    SelectSeq(<<(<<x - 1, y>>), (<<x + 1, y>>), (<<x, y - 1>>), (<<x, y + 1>>)>>,
              LAMBDA c : c \in Cells)

\* C24: a target-mode attack at (x, y) that hits leaves the AI in TARGET_MODE
\* with lastHit = (x, y); and the Arduino turn that follows such a hit writes the
\* neighbours of (x, y) at the head of the target list and attacks the first
\* entry of the list, counted from entry 0, whose cell is untried.
C24_TargetHitChase ==
    [][/\ (/\ ev'.pre = "ARDUINO_TURN" /\ ev'.reset = "none"
           /\ ev'.via = "target" /\ ev'.act = "arduinoHit")
              => /\ arduinoAttackMode' = "TARGET_MODE"
                 /\ lastHitX' = ev'.x /\ lastHitY' = ev'.y
                 /\ targetIndex' = 0
                 /\ ~targetListInitialized'
       /\ (/\ ev.via = "target" /\ ev.act = "arduinoHit"
           /\ ev'.pre = "ARDUINO_TURN" /\ ev'.reset = "none")
              => LET adj == NeighboursOnGrid(lastHitX, lastHitY)
                     untried == UntriedEntries(targetList', 0, arduinoAttackGrid)
                 IN  /\ \A i \in 0 .. (Len(adj) - 1) : targetList'[i] = adj[i + 1]
                     /\ (untried # {}) <=> (ev'.via = "target")
                     /\ ev'.via = "target"
                           => \E i \in untried :
                                 /\ \A j \in untried : i <= j
                                 /\ <<ev'.x, ev'.y>> = targetList'[i]
                                 /\ ev'.act = "arduinoMiss" => targetIndex' = i + 1]_vars

\* The chase has moved from (1, 0) to the corner (0, 0): the list was rebuilt
\* around the corner, its first entry (1, 0) was skipped as tried and its
\* second, (0, 1), has just been attacked.
C24_Witness ==
    /\ ev.via = "target" /\ ev.act = "arduinoMiss"
    /\ <<ev.x, ev.y>> = <<0, 1>>
    /\ lastHitX = 0 /\ lastHitY = 0
    /\ playerGrid[1][0] = SHIP_HIT
    /\ playerGrid[0][0] = SHIP_HIT
    /\ targetList[0] = <<1, 0>>
    /\ targetList[1] = <<0, 1>>
    /\ targetIndex = 2
    /\ arduinoAttackMode = "TARGET_MODE"

\* C25: a target-mode attack that misses leaves the AI in TARGET_MODE with
\* lastHit and the target list as they were; the next Arduino turn attacks the
\* next entry of the same list, after the one just attacked, whose cell is
\* untried; and a turn that begins in TARGET_MODE leaves it for the hunt branch
\* exactly when no entry left in the list is untried.
C25_TargetMiss ==
    [][/\ (/\ ev'.pre = "ARDUINO_TURN" /\ ev'.reset = "none"
           /\ ev'.via = "target" /\ ev'.act = "arduinoMiss")
              => /\ arduinoAttackMode' = "TARGET_MODE"
                 /\ lastHitX' = lastHitX /\ lastHitY' = lastHitY
                 /\ targetListInitialized'
                 /\ targetListInitialized => targetList' = targetList
                 /\ targetIndex' > (IF targetListInitialized THEN targetIndex ELSE 0)
                 /\ targetList'[targetIndex' - 1] = <<ev'.x, ev'.y>>
       /\ (/\ ev.via = "target" /\ ev.act = "arduinoMiss"
           /\ ev'.pre = "ARDUINO_TURN" /\ ev'.reset = "none")
              => LET untried == UntriedEntries(targetList, targetIndex, arduinoAttackGrid)
                 IN  /\ targetList' = targetList
                     /\ ev'.via = "target"
                           => \E i \in untried :
                                 /\ \A j \in untried : i <= j
                                 /\ i >= targetIndex
                                 /\ <<ev'.x, ev'.y>> = targetList[i]
       /\ (/\ ev'.pre = "ARDUINO_TURN" /\ ev'.reset = "none"
           /\ arduinoAttackMode = "TARGET_MODE")
              => /\ (ev'.via = "fallback")
                       <=> (UntriedEntries(targetList',
                                           IF targetListInitialized THEN targetIndex ELSE 0,
                                           arduinoAttackGrid) = {})
                 /\ ev'.via \in {"target", "fallback"}
                 /\ arduinoAttackMode' = "HUNT_MODE" => ev'.via = "fallback"]_vars

\* The first two entries of the list have been attacked in two turns and both
\* missed; the AI is still in target mode, at the third entry.
C25_Witness ==
    /\ ev.via = "target" /\ ev.act = "arduinoMiss"
    /\ arduinoAttackMode = "TARGET_MODE"
    /\ targetListInitialized
    /\ targetIndex = 2
    /\ <<ev.x, ev.y>> = targetList[1]
    /\ arduinoAttackGrid[targetList[0][1]][targetList[0][2]] = ATTACK_MISS
    /\ arduinoAttackGrid[targetList[1][1]][targetList[1][2]] = ATTACK_MISS
    /\ arduinoAttackGrid[lastHitX][lastHitY] = ATTACK_HIT

\* C26: arduinoAttack calls itself only from target mode, after setting
\* HUNT_MODE, and the nested call runs the hunt branch, which makes no call: at
\* most one call is nested in a turn.  With an untried cell on
\* arduinoAttackGrid the sampling loop has a cell to end with, and the turn
\* ends with one attack resolved.
C26_BoundedFallback ==
    (gameState \in {"PLAYER_TURN", "ARDUINO_TURN"} /\ untriedCells(arduinoAttackGrid) # {})
        => \E s \in {[St EXCEPT !.gameState = "ARDUINO_TURN",
                                !.ev = NoEvent("ARDUINO_TURN")]} :
              /\ arduinoAttackDepth(s) <= 1
              /\ arduinoAttackDepth(s) = 1
                    <=> (s.arduinoAttackMode = "TARGET_MODE" /\ reachesHunt(s))
              /\ reachesHunt(s) => huntCells(s.arduinoAttackGrid) # {}
              /\ \A h \in (IF reachesHunt(s) THEN huntCells(s.arduinoAttackGrid)
                           ELSE {<<0, 0>>}) :
                    \E r \in {arduinoAttack(s, h)} :
                       /\ ArduinoResolved(r.ev)
                       /\ r.gameState \in {"PLAYER_TURN", "GAME_OVER"}
                       /\ (r.ev.via = "fallback") <=> (arduinoAttackDepth(s) = 1)

\* A turn that began in target mode with its list exhausted: the nested call
\* hunted and hit the cell of the ship that the chase had left, which ends the
\* game with cells still untried.
C26_Witness ==
    /\ ev.pre = "ARDUINO_TURN" /\ ev.via = "fallback" /\ ev.act = "arduinoHit"
    /\ arduinoAttackMode = "TARGET_MODE"
    /\ lastHitX = ev.x /\ lastHitY = ev.y
    /\ gameState = "GAME_OVER"
    /\ untriedCells(arduinoAttackGrid) # {}

(***************************************************************************)
(* The life of a cell between two resets, under SpecReset.                 *)
(***************************************************************************)
\* A step of an ownership cell from a to b in the given phase: none, EMPTY to a
\* ship id while ships are placed, or a ship id to SHIP_HIT in a battle phase.
OwnershipStep(a, b, phase) ==
    \/ b = a
    \/ a = EMPTY /\ b \in 1 .. NUM_SHIPS /\ phase = "PLACING_SHIPS"
    \/ a \in 1 .. NUM_SHIPS /\ b = SHIP_HIT /\ phase \in {"PLAYER_TURN", "ARDUINO_TURN"}

\* A step of an attack cell: none, or untried to hit or miss.
AttackStep(a, b) ==
    \/ b = a
    \/ a = ATTACK_UNTRIED /\ b \in {ATTACK_HIT, ATTACK_MISS}

\* C27: in a tick without a reset every cell of playerGrid and arduinoGrid
\* stays as it is, goes from EMPTY to a ship id during placement, or from a
\* ship id to SHIP_HIT during a battle phase, the cell then being the one
\* attacked; every cell of the attack grids stays as it is or goes from untried
\* to hit or miss, so that a cell once hit or missed never changes again; and
\* the grids hold no other values.
C27_CellsMoveForward ==
    [][ev'.reset = "none" =>
          \A c \in Cells :
             /\ OwnershipStep(playerGrid[c[1]][c[2]], playerGrid'[c[1]][c[2]], gameState)
             /\ OwnershipStep(arduinoGrid[c[1]][c[2]], arduinoGrid'[c[1]][c[2]], gameState)
             /\ arduinoGrid'[c[1]][c[2]] # arduinoGrid[c[1]][c[2]]
                   => (gameState = "PLAYER_TURN" /\ c = <<ev'.x, ev'.y>>)
             /\ (playerGrid'[c[1]][c[2]] # playerGrid[c[1]][c[2]]
                    /\ gameState # "PLACING_SHIPS")
                   => (gameState = "ARDUINO_TURN" /\ c = <<ev'.x, ev'.y>>)
             /\ AttackStep(playerAttackGrid[c[1]][c[2]], playerAttackGrid'[c[1]][c[2]])
             /\ AttackStep(arduinoAttackGrid[c[1]][c[2]], arduinoAttackGrid'[c[1]][c[2]])
             /\ playerGrid'[c[1]][c[2]] \in {EMPTY, SHIP_HIT} \cup (1 .. NUM_SHIPS)
             /\ arduinoGrid'[c[1]][c[2]] \in {EMPTY, SHIP_HIT} \cup (1 .. NUM_SHIPS)]_vars

\* The Arduino has missed a cell of the player's grid, which is still EMPTY,
\* and has now hit the player's ship.
C27_Witness ==
    /\ ev.pre = "ARDUINO_TURN" /\ ev.reset = "none" /\ ev.act = "arduinoHit"
    /\ playerGrid[ev.x][ev.y] = SHIP_HIT
    /\ \E c \in Cells : /\ arduinoAttackGrid[c[1]][c[2]] = ATTACK_MISS
                        /\ playerGrid[c[1]][c[2]] = EMPTY
    /\ \E c \in Cells : playerAttackGrid[c[1]][c[2]] = ATTACK_MISS

(***************************************************************************)
(* Phase changes within one tick of loop(), under SpecReset.               *)
(***************************************************************************)
\* The values gameState holds in the course of the tick that starts in the
\* current state with the inputs b, layout, in and h: at entry, when the
\* blue-button part is done, and when the switch is done.
TickPhases(b, layout, in, h) ==
    LET s1 == handleBlueButton([St EXCEPT !.ev = NoEvent(gameState)], b, layout)
    IN  <<gameState, s1.gameState, handleGameState(s1, in, h).gameState>>

\* The number of places where a sequence of phases changes value.
Changes(seq) ==
    Cardinality({i \in 1 .. (Len(seq) - 1) : seq[i] # seq[i + 1]})

\* C28: for every state the program reaches and every combination of inputs a
\* tick can read there, gameState changes value at most once between the entry
\* of loop() and its return; the tick of a reset and the tick that places the
\* last ship are among them.
C28_OnePhaseChangePerTick ==
    \A b \in BlueInputs(St) :
       \A layout \in (IF resetFires(St, b) THEN fleets ELSE {arduinoGrid}) :
          \A in \in GameInputs(handleBlueButton([St EXCEPT !.ev = NoEvent(gameState)],
                                                b, layout)) :
             \A h \in Cells : Changes(TickPhases(b, layout, in, h)) <= 1

\* A long press has reset a game that was in the player's turn with the whole
\* roster placed; the same tick has gone on to playerPlaceShips, which found
\* shipId at 0 and left the phase at PLACING_SHIPS.
C28_Witness ==
    /\ ev.pre = "PLAYER_TURN" /\ ev.reset = "long"
    /\ gameState = "PLACING_SHIPS"
    /\ shipId = 0
    /\ lastRedButtonState = "HIGH"

(***************************************************************************)
(* The red button as a single-shot confirm, under SpecReset.               *)
(***************************************************************************)
\* What a tick records when it has taken a press of the red button as a
\* placement attempt or an attack attempt.
Attempts == {"placed", "rejected", "playerHit", "playerMiss", "alreadyTried"}

\* C29: a tick makes a placement or attack attempt only when redButtonState was
\* HIGH, and the attempt leaves it LOW with the button read as pressed;
\* redButtonState returns to HIGH only in a tick that reads the button
\* released, and that tick makes no attempt.  So while the button is held,
\* through any number of ticks, resets and phase changes, no second attempt
\* follows, and the tick that finds the roster placed and the ticks of
\* PLAYER_TURN after it leave a held button without effect.
C29_SingleShotConfirm ==
    [][/\ ev'.act \in Attempts
            => /\ redButtonState = "HIGH"
               /\ redButtonState' = "LOW"
               /\ lastRedButtonState' = "LOW"
               /\ gameState \in {"PLACING_SHIPS", "PLAYER_TURN"} \/ ev'.reset # "none"
       /\ (redButtonState = "LOW" /\ redButtonState' = "HIGH")
            => (lastRedButtonState' = "HIGH" /\ ev'.act \notin Attempts)
       /\ (redButtonState = "LOW" /\ lastRedButtonState' = "LOW")
            => (redButtonState' = "LOW" /\ ev'.act \notin Attempts)
       /\ ev'.act = "allPlaced" => redButtonState' = redButtonState]_vars

\* The press that placed the last ship is still held: the phase has become
\* PLAYER_TURN, playerAttack has polled the button as pressed, and no attack
\* has been made.
C29_Witness ==
    /\ ev.pre = "PLAYER_TURN" /\ ev.reset = "none" /\ ev.act = "none"
    /\ gameState = "PLAYER_TURN"
    /\ shipId = NUM_SHIPS
    /\ redButtonState = "LOW" /\ lastRedButtonState = "LOW"
    /\ \A c \in Cells : /\ playerAttackGrid[c[1]][c[2]] = ATTACK_UNTRIED
                        /\ arduinoAttackGrid[c[1]][c[2]] = ATTACK_UNTRIED

(***************************************************************************)
(* The addresses of the packed grids at the size the sketch is built with: *)
(* listings 2 and 3 of battle_ship_test_code.ino, GRID_SIZE 10.  One call  *)
(* of setCellState on playerGrid, read back by getCellState.               *)
(***************************************************************************)
\* #define GRID_SIZE 10 of listings 2 and 3.
AddressGridSize == 10

AddressSketches == {"test_code/2", "test_code/3"}

\* The locals of setCellState and getCellState of listing k for cell (x, y):
\* index and bitIndex are uint16_t, bitOffset is uint8_t, byteIndex is uint8_t
\* in listing 2 and uint16_t in listing 3; crossByte: the branch
\* `if (bitOffset > 6)` of listing 3 is taken.
cellAddress_ThreeBits(k, x, y) ==
    LET index == (y * GRID_SIZE + x) % 65536
        bitIndex == (index * 3) % 65536
        byteIndex == (bitIndex \div 8) % (IF k = "test_code/2" THEN 256 ELSE 65536)
        bitOffset == (bitIndex % 8) % 256
    IN  [bitIndex |-> bitIndex, byteIndex |-> byteIndex, bitOffset |-> bitOffset,
         crossByte |-> (k = "test_code/3" /\ bitOffset > 6)]

cellAddress(k, x, y) ==
    LET index == (y * GRID_SIZE + x) % 65536
        bitIndex == (index * 2) % 65536
        byteIndex == (bitIndex \div 8) % (IF k = "test_code/2" THEN 256 ELSE 65536)
        bitOffset == (bitIndex % 8) % 256
    IN  [bitIndex |-> bitIndex, byteIndex |-> byteIndex, bitOffset |-> bitOffset,
         crossByte |-> (k = "test_code/3" /\ bitOffset > 6)]

InitAddress ==
    /\ sketch \in AddressSketches
    /\ GRID_SIZE = AddressGridSize
    /\ ships = <<>>
    /\ env = NoButtons
    /\ gameState = "WAITING_TO_START"
    /\ \E b \in FillBytes : playerGrid = [i \in 0 .. (gridBytes - 1) |-> b]
    /\ arduinoGrid = <<>>
    /\ playerAttackGrid = <<>>
    /\ arduinoAttackGrid = <<>>
    /\ cursorX = 0
    /\ cursorY = 0
    /\ redButtonState = "HIGH"
    /\ lastRedButtonState = "HIGH"
    /\ lastBlueButtonState = "HIGH"
    /\ blueButtonLongPressHandled = FALSE
    /\ blueButtonShortPress = FALSE
    /\ playerShipHorizontal = TRUE
    /\ arduinoAttackMode = "HUNT_MODE"
    /\ lastHitX = 0
    /\ lastHitY = 0
    /\ targetIndex = 0
    /\ targetList = [i \in 0 .. 3 |-> <<0, 0>>]
    /\ targetListInitialized = FALSE
    /\ shipId = 0
    /\ ev = [act |-> "none", x |-> 0, y |-> 0, state |-> 0, read |-> 0,
             addr |-> cellAddress(sketch, 0, 0), untouched |-> TRUE]

\* setCellState(playerGrid, x, y, state) followed by getCellState(playerGrid,
\* x, y).  ev.untouched: the call left every byte but the addressed one alone.
touchCell ==
    /\ ev.act = "none"
    /\ \E x \in Coord : \E y \in Coord : \E state \in 0 .. 3 :
          /\ playerGrid' = setCellState(playerGrid, x, y, state)
          /\ ev' = [act |-> "set", x |-> x, y |-> y, state |-> state,
                    read |-> getCellState(playerGrid', x, y),
                    addr |-> cellAddress(sketch, x, y),
                    untouched |-> \A i \in DOMAIN playerGrid :
                                     i # cellAddress(sketch, x, y).byteIndex
                                        => playerGrid'[i] = playerGrid[i]]
    /\ UNCHANGED others

SpecAddress == InitAddress /\ [][touchCell]_vars

\* C30: with GRID_SIZE 10 the grid arrays are 25 bytes long; for the cell of
\* every call, and for every cell of the board in both listings, the byte
\* index is the unwrapped bitIndex / 8 and lies below 25, the bit offset is
\* 0, 2, 4 or 6 and the cross-byte branch is not taken; the call changes no
\* byte but the addressed one and the cell reads back as written.
C30_PackedAddressing ==
    /\ gridBytes = 25
    /\ DOMAIN playerGrid = 0 .. 24
    /\ ev.addr.byteIndex = ((ev.y * 10 + ev.x) * 2) \div 8
    /\ ev.addr.byteIndex < gridBytes
    /\ ev.addr.bitOffset \in {0, 2, 4, 6}
    /\ ~ev.addr.crossByte
    /\ ev.untouched
    /\ ev.act = "set" => ev.read = ev.state
    /\ \A k \in AddressSketches : \A x \in Coord : \A y \in Coord :
          /\ cellAddress(k, x, y).byteIndex = ((y * 10 + x) * 2) \div 8
          /\ cellAddress(k, x, y).byteIndex < gridBytes
          /\ cellAddress(k, x, y).bitOffset \in {0, 2, 4, 6}
          /\ ~cellAddress(k, x, y).crossByte

\* The last cell of the board, (9, 9), has been written by listing 3: bit index
\* 198, the last byte of the array, offset 6.
C30_Witness ==
    /\ sketch = "test_code/3"
    /\ ev.act = "set" /\ ev.x = 9 /\ ev.y = 9 /\ ev.state = 2
    /\ ev.addr.bitIndex = 198 /\ ev.addr.byteIndex = 24 /\ ev.addr.bitOffset = 6
    /\ playerGrid[24] \div 64 = 2

(***************************************************************************)
(* One hold of the blue button.  The ticks of loop() as in SpecReset, with *)
(* ev.hold the history of the hold the tick belongs to: level, the level   *)
(* digitalRead(BLUE_BUTTON_PIN) returned in the tick; resets, the calls of *)
(* resetGame made by the long-press branch since the button was last read  *)
(* HIGH; released, the tick read HIGH after a tick that read LOW.          *)
(***************************************************************************)
MaxHoldResets == 2

NoHold == [level |-> "HIGH", resets |-> 0, released |-> FALSE]

loopHeld ==
    /\ gameState \notin env.stop
    /\ \E b \in BlueInputs(St) :
         \E layout \in (IF resetFires(St, b) THEN fleets ELSE {arduinoGrid}) :
           \E prev \in {IF "hold" \in DOMAIN ev THEN ev.hold ELSE NoHold} :
             \E s1 \in {handleBlueButton([St EXCEPT !.ev = NoEvent(gameState)], b, layout)} :
               \E hold \in {[level |-> b.blue,
                             resets |-> (IF prev.level = "HIGH" THEN 0 ELSE prev.resets)
                                          + (IF s1.ev.reset = "long" THEN 1 ELSE 0),
                             released |-> (prev.level = "LOW" /\ b.blue = "HIGH")]} :
                  /\ hold.resets <= MaxHoldResets
                  /\ \E in \in GameInputs(s1) :
                       \E h \in (IF s1.gameState = "ARDUINO_TURN" /\ reachesHunt(s1)
                                 THEN untriedCells(s1.arduinoAttackGrid)
                                 ELSE {<<0, 0>>}) :
                          \E s2 \in {handleGameState(s1, in, h)} :
                             Becomes([s2 EXCEPT !.ev = s2.ev @@ [hold |-> hold]])

SpecHold == InitReset /\ [][loopHeld]_vars

\* C31: a hold of the blue button that has reached the long-press threshold
\* has run resetGame once and no more, no tick of the hold, the tick of the
\* release included, runs the short-press action (a reset or a toggle of the
\* orientation), and at the release playerShipHorizontal is true and, no ship
\* having been placed meanwhile, the phase is PLACING_SHIPS.
C31_LongPressIsOneReset ==
    ("hold" \in DOMAIN ev /\ ev.hold.resets >= 1)
        => /\ ev.hold.resets = 1
           /\ ~ev.toggle
           /\ ev.reset # "short"
           /\ ev.hold.released
                => /\ playerShipHorizontal
                   /\ shipId = 0 => gameState = "PLACING_SHIPS"

(***************************************************************************)
(* The random generator.  The ticks of loop() as in SpecReset, with ev.rng *)
(* the history of the generator: seeded, randomSeed has been called since  *)
(* power-up; drew, the tick called random().                               *)
(***************************************************************************)
\* The functions of sketch k that call randomSeed: none in
\* battle_ship_serial_monitor.ino; placeArduinoShips in part_000, with
\* analogRead(0), before its first draw.
seedingCalls(k) ==
    IF k = "part_000" THEN {"placeArduinoShips"} ELSE {}

Unseeded == [seeded |-> FALSE, drew |-> FALSE]

loopDrawing ==
    /\ gameState \notin env.stop
    /\ \E b \in BlueInputs(St) :
         \E layout \in (IF resetFires(St, b) THEN fleets ELSE {arduinoGrid}) :
           \E prev \in {IF "rng" \in DOMAIN ev THEN ev.rng ELSE Unseeded} :
             \E s1 \in {handleBlueButton([St EXCEPT !.ev = NoEvent(gameState)], b, layout)} :
               \E hunts \in {s1.gameState = "ARDUINO_TURN" /\ reachesHunt(s1)} :
                 \E rng \in {[seeded |-> \/ prev.seeded
                                         \/ /\ resetFires(St, b)
                                            /\ "placeArduinoShips" \in seedingCalls(sketch),
                              drew |-> (resetFires(St, b) \/ hunts)]} :
                    \E in \in GameInputs(s1) :
                       \E h \in (IF hunts THEN untriedCells(s1.arduinoAttackGrid)
                                 ELSE {<<0, 0>>}) :
                          \E s2 \in {handleGameState(s1, in, h)} :
                             Becomes([s2 EXCEPT !.ev = s2.ev @@ [rng |-> rng]])

SpecSeed == InitReset /\ [][loopDrawing]_vars

\* C32: every tick that draws from random(), in placeArduinoShips or in the
\* hunt-mode sampling loop, finds the generator seeded by an earlier call of
\* randomSeed or by one made before the draw in the same tick.
C32_SeededBeforeDraw ==
    ("rng" \in DOMAIN ev /\ ev.rng.drew) => ev.rng.seeded

(***************************************************************************)
(* The games of battle_ship_serial_monitor.ino and of part_001 together:   *)
(* a run is a run of one of the two sketches.                              *)
(***************************************************************************)
InitTurns == InitReset \/ Init_001

loopOfSketch ==
    \/ sketch = "serial_monitor" /\ loop
    \/ sketch = "part_001" /\ loop_001

SpecTurns == InitTurns /\ [][loopOfSketch]_vars

\* C33: whenever the phase is ARDUINO_TURN, arduinoAttackGrid has an untried
\* cell, the Arduino having resolved fewer attacks than the player, who moves
\* first; so the sampling loop of arduinoAttack has a cell to end with, and
\* no tick of part_001 takes its branch for a grid with no untried cell.
C33_UntriedCellOnArduinoTurn ==
    /\ gameState = "ARDUINO_TURN"
          => /\ untriedCells(arduinoAttackGrid) # {}
             /\ Cardinality(untriedCells(arduinoAttackGrid))
                   > Cardinality(untriedCells(playerAttackGrid))
    /\ ev.act # "noPositionsLeft"

\* The fullest grid an Arduino turn starts with on this board: the player has
\* missed three times, the Arduino twice, and two cells are left.
C33_Witness ==
    /\ gameState = "ARDUINO_TURN"
    /\ Cardinality(untriedCells(arduinoAttackGrid)) = 2
    /\ Cardinality(untriedCells(playerAttackGrid)) = 1

(***************************************************************************)
(* The attack grids against the grids they were resolved on, under         *)
(* SpecBattle.                                                             *)
(***************************************************************************)
\* The marks of attack grid a agree with ownership grid g.
Consistent(a, g) ==
    \A c \in Cells :
       /\ a[c[1]][c[2]] = ATTACK_HIT <=> g[c[1]][c[2]] = SHIP_HIT
       /\ a[c[1]][c[2]] = ATTACK_MISS => g[c[1]][c[2]] = EMPTY

\* C34: in every state a cell of playerAttackGrid is HIT exactly when the cell
\* of arduinoGrid is SHIP_HIT and is MISS only when that cell is EMPTY, and
\* the same holds between arduinoAttackGrid and playerGrid.
C34_AttackGridsConsistent ==
    /\ Consistent(playerAttackGrid, arduinoGrid)
    /\ Consistent(arduinoAttackGrid, playerGrid)

\* Both sides have hit and missed, the Arduino's last hit made in target mode.
C34_Witness ==
    /\ ev.act = "arduinoHit" /\ ev.via = "target"
    /\ \E c \in Cells : playerAttackGrid[c[1]][c[2]] = ATTACK_HIT
    /\ \E c \in Cells : playerAttackGrid[c[1]][c[2]] = ATTACK_MISS
    /\ \E c \in Cells : arduinoAttackGrid[c[1]][c[2]] = ATTACK_MISS

(***************************************************************************)
(* The ship cells of a fleet, under SpecPolicies.                          *)
(***************************************************************************)
\* The rosters the sketches are built with: ships[] of
\* battle_ship_serial_monitor.ino and part_001, of the test code, of part_000.
ships_sm == <<5, 4, 3, 3, 2, 2, 1>>

ships_tc == <<5, 4, 3, 3, 2>>

ships_000 == <<5, 4, 3, 2>>

RECURSIVE SumOf(_)
SumOf(seq) == IF seq = <<>> THEN 0 ELSE Head(seq) + SumOf(Tail(seq))

\* The cells of a stored fleet that hold a ship, hit or not.
FleetCellsOf(k, grid) ==
    IF k = "tc"
    THEN {c \in Cells : getCellState(grid, c[1], c[2]) \in {CELL_SHIP, CELL_HIT}}
    ELSE {c \in Cells : grid[c[1]][c[2]] > 0 \/ grid[c[1]][c[2]] = SHIP_HIT}

\* The HIT marks of an attack grid.
HitMarksOf(k, grid) ==
    IF k = "tc"
    THEN {c \in Cells : getCellState(grid, c[1], c[2]) = CELL_HIT}
    ELSE {c \in Cells : grid[c[1]][c[2]] = ATTACK_HIT}

\* C35: from the end of placement on, in every sketch the un-hit ship cells and
\* the hit cells of the Arduino's grid together are as many as the roster has
\* cells, the placed ships having no cell in common, and so are those of the
\* player's grid; the HIT marks of the attack grid are never more; and the
\* rosters of the sketches have 20, 17 and 14 cells.
C35_ShipCellsConserved ==
    /\ \A k \in {"sm", "tc", "p1"} :
          /\ Cardinality(FleetCellsOf(k, arduinoGrid[k])) = SumOf(ships)
          /\ Cardinality(HitMarksOf(k, playerAttackGrid[k])) <= SumOf(ships)
          /\ HitMarksOf(k, playerAttackGrid[k]) \subseteq FleetCellsOf(k, arduinoGrid[k])
    /\ Cardinality(FleetCellsOf("sm", playerGrid)) = SumOf(ships)
    /\ SumOf(ships_sm) = 20
    /\ SumOf(ships_tc) = 17
    /\ SumOf(ships_000) = 14

\* Two of the three ship cells are hit and a miss is marked, on the defender's
\* grid too in the test code; the game goes on.
C35_Witness ==
    /\ Cardinality(HitMarksOf("tc", playerAttackGrid.tc)) = 2
    /\ Cardinality(HitMarksOf("sm", playerAttackGrid.sm)) = 2
    /\ \E c \in Cells : getCellState(arduinoGrid.tc, c[1], c[2]) = CELL_MISS
    /\ gameState.tc = "ARDUINO_TURN"

(***************************************************************************)
(* Whose turn it is, under SpecReset.                                      *)
(***************************************************************************)
\* The attacks resolved on an attack grid since it was last cleared.
Resolved(grid) == Cardinality(Cells \ untriedCells(grid))

\* C36: in PLAYER_TURN both sides have resolved the same number of attacks, in
\* ARDUINO_TURN the player one more; the tick that finds the roster placed
\* gives the turn to the player with no attack resolved; and the tick that
\* refuses an attack on a cell tried before leaves the turn with the player.
C36_TurnsAlternate ==
    /\ gameState = "PLAYER_TURN"
          => Resolved(playerAttackGrid) = Resolved(arduinoAttackGrid)
    /\ gameState = "ARDUINO_TURN"
          => Resolved(playerAttackGrid) = Resolved(arduinoAttackGrid) + 1
    /\ gameState \in {"WAITING_TO_START", "PLACING_SHIPS"}
          => (Resolved(playerAttackGrid) = 0 /\ Resolved(arduinoAttackGrid) = 0)
    /\ ev.act = "allPlaced"
          => (gameState = "PLAYER_TURN" /\ Resolved(playerAttackGrid) = 0)
    /\ ev.act = "alreadyTried" => gameState = "PLAYER_TURN"

\* After two attacks of each side the player has confirmed a cell attacked
\* before: the attack is refused and it is still the player's turn.
C36_Witness ==
    /\ ev.act = "alreadyTried"
    /\ gameState = "PLAYER_TURN"
    /\ Resolved(playerAttackGrid) = 2
    /\ Resolved(arduinoAttackGrid) = 2

(***************************************************************************)
(* The anchor of target mode, under SpecAI.                                *)
(***************************************************************************)
\* C37: whenever arduinoAttackMode is TARGET_MODE, (lastHitX, lastHitY) is a
\* cell of the board that arduinoAttackGrid marks HIT and playerGrid marks
\* SHIP_HIT; and targetIndex is between 0 and 4 in every state.
C37_TargetAnchorValid ==
    /\ arduinoAttackMode = "TARGET_MODE"
          => /\ lastHitX \in Coord
             /\ lastHitY \in Coord
             /\ arduinoAttackGrid[lastHitX][lastHitY] = ATTACK_HIT
             /\ playerGrid[lastHitX][lastHitY] = SHIP_HIT
    /\ targetIndex \in 0 .. 4

\* Target mode has attacked the last entry of its list and missed: the index
\* stands at 4, the anchor is a cell other than (0, 0), hit earlier.
C37_Witness ==
    /\ arduinoAttackMode = "TARGET_MODE"
    /\ targetIndex = 4
    /\ ev.via = "target" /\ ev.act = "arduinoMiss"
    /\ <<lastHitX, lastHitY>> # <<0, 0>>
    /\ playerGrid[lastHitX][lastHitY] = SHIP_HIT

(***************************************************************************)
(* Placement in listing 2 of battle_ship_test_code.ino, with the reads of  *)
(* the roster table.  ev.reads: the indices shipId at which the tick read  *)
(* ships[shipId].                                                          *)
(***************************************************************************)
PreviewGridSize == 3
PreviewShips == <<2, 1>>

\* updatePlayerMatrix in state s: for every cell, `gameState == PLACING_SHIPS
\* && isShipPreviewPosition(x, y)`, and isShipPreviewPosition copies
\* ships[shipId] before it looks at the cell.  The indices read.
previewReads(s) ==
    IF s.gameState = "PLACING_SHIPS" /\ Cells # {} THEN {s.shipId} ELSE {}

\* playerPlaceShips of listing 2.  in.doubleClick: handleJoystickButton sees
\* the second click of a double click.
playerPlaceShips_tc2(s, in) ==
    IF s.shipId >= NUM_SHIPS
    THEN [s EXCEPT !.gameState = "PLAYER_TURN", !.ev.act = "allPlaced"]
    ELSE LET c == updateCursorPosition_tc(s, in)
             s1 == IF redAccepted(c, in) THEN [c EXCEPT !.redButtonState = in.red] ELSE c
             s2 == IF redAccepted(c, in) /\ in.red = "LOW"
                   THEN IF canPlaceShip_tc(s1.playerGrid, s1.cursorX, s1.cursorY,
                                           ships[s1.shipId + 1], s1.playerShipHorizontal)
                        THEN [s1 EXCEPT !.playerGrid =
                                           placeShip_tc(@, s1.cursorX, s1.cursorY,
                                                        ships[s1.shipId + 1],
                                                        s1.playerShipHorizontal),
                                        !.shipId = @ + 1,
                                        !.ev.act = "placed"]
                        ELSE [s1 EXCEPT !.ev.act = "rejected"]
                   ELSE s1
             s3 == [s2 EXCEPT !.lastRedButtonState = in.red,
                              !.playerShipHorizontal = IF in.doubleClick THEN ~@ ELSE @]
         IN  [s3 EXCEPT !.ev.reads = {s.shipId} \cup previewReads(s3)]

InitPreview ==
    /\ sketch = "test_code/2"
    /\ GRID_SIZE = PreviewGridSize
    /\ ships = PreviewShips
    /\ env = NoButtons
    /\ gameState = "PLACING_SHIPS"
    /\ playerGrid = [i \in 0 .. (gridBytes - 1) |-> 0]
    /\ arduinoGrid = [i \in 0 .. (gridBytes - 1) |-> 0]
    /\ playerAttackGrid = [i \in 0 .. (gridBytes - 1) |-> 0]
    /\ arduinoAttackGrid = [i \in 0 .. (gridBytes - 1) |-> 0]
    /\ cursorX = 0
    /\ cursorY = 0
    /\ redButtonState = "HIGH"
    /\ lastRedButtonState = "HIGH"
    /\ lastBlueButtonState = "HIGH"
    /\ blueButtonLongPressHandled = FALSE
    /\ blueButtonShortPress = FALSE
    /\ playerShipHorizontal = TRUE
    /\ arduinoAttackMode = "HUNT_MODE"
    /\ lastHitX = 0
    /\ lastHitY = 0
    /\ targetIndex = 0
    /\ targetList = [i \in 0 .. 3 |-> <<0, 0>>]
    /\ targetListInitialized = FALSE
    /\ shipId = 0
    /\ ev = [act |-> "reset", reads |-> {}]

\* A tick of loop() in PLACING_SHIPS.
placingTick ==
    /\ gameState = "PLACING_SHIPS"
    /\ \E in \in [red : Levels, redElapsed : BOOLEAN, joyReady : BOOLEAN,
                  xDir : -1 .. 1, yDir : -1 .. 1, doubleClick : BOOLEAN] :
          /\ ~in.joyReady => (in.xDir = 0 /\ in.yDir = 0)
          /\ in.redElapsed => (in.red = lastRedButtonState)
          /\ Becomes(playerPlaceShips_tc2(
                        [St EXCEPT !.ev = [act |-> "none", reads |-> {}]]
                           @@ [moved |-> FALSE], in))

SpecPreview == InitPreview /\ [][placingTick]_vars

\* C38: every read of ships[shipId] a tick makes, by playerPlaceShips or by
\* isShipPreviewPosition when the display is refreshed, is made with
\* shipId < NUM_SHIPS.
C38_RosterReadInBounds ==
    \A i \in ev.reads : i < NUM_SHIPS

(***************************************************************************)
(* The battle to its end: SpecBattle with loop() called again and again.   *)
(***************************************************************************)
\* The battles against the first fleet placeArduinoShips can draw, from every
\* placement of the player's fleet.
InitOneFleet ==
    /\ InitBattle
    /\ arduinoGrid = CHOOSE g \in placeArduinoShips : TRUE

\* The tick of loop() in phase ARDUINO_TURN: nothing is pressed, the switch
\* calls arduinoAttack, and h is the cell the sampling loop ends with.
arduinoTick ==
    /\ gameState = "ARDUINO_TURN"
    /\ \E s \in {[St EXCEPT !.ev = NoEvent(gameState)]} :
         \E h \in (IF reachesHunt(s) THEN untriedCells(arduinoAttackGrid) ELSE {<<0, 0>>}) :
            \E r \in {arduinoAttack(s, h)} : Becomes(r)

\* loop() is called again for ever, so the Arduino's turn is always taken; what
\* the player does is left open.
SpecBattleLive == InitOneFleet /\ [][Next]_vars /\ WF_vars(arduinoTick)

\* The player does not sit on a turn for ever: each PLAYER_TURN is left, which
\* without a reset only a confirmed attack on an untried cell does.
PlayerKeepsAttacking == (gameState = "PLAYER_TURN") ~> (gameState # "PLAYER_TURN")

\* C39: with no reset, and the player confirming an attack on an untried cell
\* in each of the player's turns, the game that has reached PLAYER_TURN
\* reaches GAME_OVER; and at every moment the player has resolved at most
\* N * N attacks and the Arduino at most N * N - 1.
C39_GameTerminates ==
    /\ [](/\ Resolved(playerAttackGrid) <= GRID_SIZE * GRID_SIZE
          /\ Resolved(arduinoAttackGrid) <= GRID_SIZE * GRID_SIZE - 1)
    /\ PlayerKeepsAttacking => <>(gameState = "GAME_OVER")

\* The longest game of this board is over: the player has attacked every
\* cell, the Arduino every cell but one.
C39_Witness ==
    /\ gameState = "GAME_OVER"
    /\ Resolved(playerAttackGrid) = GRID_SIZE * GRID_SIZE
    /\ Resolved(arduinoAttackGrid) = GRID_SIZE * GRID_SIZE - 1

(***************************************************************************)
(* battle_ship_serial_monitor.ino: the loser of a finished game.           *)
(***************************************************************************)
\* C40: in GAME_OVER exactly one of countRemainingShips(playerGrid) and
\* countRemainingShips(arduinoGrid) is 0; in PLAYER_TURN and in ARDUINO_TURN
\* both counts are greater than 0.
C40_ExactlyOneLoser ==
    /\ gameState = "GAME_OVER" =>
          (countRemainingShips(playerGrid) = 0) # (countRemainingShips(arduinoGrid) = 0)
    /\ gameState \in {"PLAYER_TURN", "ARDUINO_TURN"} =>
          /\ countRemainingShips(playerGrid) > 0
          /\ countRemainingShips(arduinoGrid) > 0

\* The Arduino has just sunk the player's last ship, with its own ship hit
\* but still afloat.
C40_Witness ==
    /\ gameState = "GAME_OVER"
    /\ ev.act = "arduinoHit"
    /\ countRemainingShips(playerGrid) = 0
    /\ countRemainingShips(arduinoGrid) > 0
    /\ \E c \in Cells : arduinoGrid[c[1]][c[2]] = SHIP_HIT

====
